---------------------------- MODULE Spec2Model ----------------------------
(***************************************************************************)
(* A model of the encrypted journaling store of Dr. Claude                 *)
(* (src/src/models.py, class Database) and of the callers in               *)
(* src/src/app.py that drive it.                                            *)
(*                                                                         *)
(* Text is modelled as a sequence of fragments (TLA+ strings): a fragment  *)
(* stands for a character or a fixed run of characters.  Bytes are         *)
(* fragments too ("xC3" is the byte 0xC3).  The cryptography is symbolic:  *)
(* a Fernet token carries its IV, its padded payload and a tag that only   *)
(* the key that produced it verifies.                                      *)
(***************************************************************************)
EXTENDS Integers, Sequences, FiniteSets, TLC

VARIABLES
    disk,      \* the committed content of the SQLite file
    conn,      \* the content as the open connection sees it (with its
               \* uncommitted writes); equal to disk outside a transaction
    db,        \* the Database handle: its state and its key
    ret,       \* what the last call returned or raised
    writers,   \* history: the passwords under which a payload was written
    failed,    \* history: the condensation that raised after its INSERT
    app        \* the DrClaude application: the position of run() and the
               \* locals of the therapy session in progress

vars == <<disk, conn, db, ret, writers, failed, app>>

-----------------------------------------------------------------------------
(* Bounds of the model.                                                    *)

\* Rows inserted into journal_entries, therapy_sessions and therapist_notes
\* together, over the whole life of the file.
MaxInserts == 3

\* The HMAC block size in bytes (64 for SHA-256), scaled down.
BlockSize == 2

\* A character outside ASCII, the NUL character, and the passwords, payloads
\* and IVs the callers and the random source supply.
NonAscii == "e'"
NUL == "x00"
Passwords == { <<"p">>, <<"q">>, <<"p", NUL>> }
StorePasswords == { <<"p">> }
Texts == { <<"a">>, <<NonAscii>> }
IVs == { "iv1", "iv2" }
StoreIVs == { "iv1" }
NoteTexts == { <<"n">> }

-----------------------------------------------------------------------------
(* str.encode() and bytes.decode(): UTF-8.                                 *)

\* The bytes of one character.
Utf8Bytes(c) == IF c = NonAscii THEN <<"xC3", "xA9">> ELSE <<c>>

\* The bytes of the characters lo..hi of s, in order.
RECURSIVE EncodeSlice(_, _, _)
EncodeSlice(s, lo, hi) ==
    IF lo > hi THEN <<>>
    ELSE IF lo = hi THEN Utf8Bytes(s[lo])
    ELSE EncodeSlice(s, lo, (lo + hi) \div 2)
         \o EncodeSlice(s, (lo + hi) \div 2 + 1, hi)

Utf8Encode(s) == EncodeSlice(s, 1, Len(s))

\* The characters of the bytes of b from the ith on.
RECURSIVE DecodeFrom(_, _)
DecodeFrom(b, i) ==
    IF i > Len(b) THEN <<>>
    ELSE IF b[i] = "xC3" /\ i < Len(b) /\ b[i + 1] = "xA9"
         THEN <<NonAscii>> \o DecodeFrom(b, i + 2)
         ELSE <<b[i]>> \o DecodeFrom(b, i + 1)

\* A decoder that takes each byte for a character (Latin-1), which
\* Utf8Decode must differ from on text outside ASCII.
Utf8Decode_Latin1(b) == b

Utf8Decode(b) == DecodeFrom(b, 1)

-----------------------------------------------------------------------------
(* Key derivation and the Fernet codec.                                    *)

\* HMAC (RFC 2104) right-pads a key shorter than the hash block with zero
\* bytes before it uses it.  (A longer key is hashed first; the passwords of
\* the model are no longer than the block.)
HmacKeyBlock(k) == k \o [i \in 1..(BlockSize - Len(k)) |-> "x00"]

\* PBKDF2-HMAC-SHA256 with the fixed salt and iteration count: HMAC keyed by
\* the password bytes.  Symbolically, the derived key is the HMAC key block:
\* two passwords derive the same key exactly when their key blocks agree.
_derive_key(password) == HmacKeyBlock(Utf8Encode(password))

\* Fernet.encrypt: version byte, IV (with the timestamp), the PKCS7-padded
\* payload under AES-CBC, and the HMAC tag, which stands for the key here.
FernetEncrypt(key, iv, data) == <<"x80", iv>> \o data \o <<"pad">> \o key

\* A verification that looks at the version byte only and not at the tag.
FernetValid_VersionOnly(key, token) ==
    /\ Len(token) >= 3 + Len(key)
    /\ token[1] = "x80"

\* Fernet.decrypt: the version and the tag are verified first; only then is
\* the payload decrypted and unpadded.
FernetValid(key, token) ==
    /\ Len(token) >= 3 + Len(key)
    /\ token[1] = "x80"
    /\ SubSeq(token, Len(token) - Len(key) + 1, Len(token)) = key
    /\ token[Len(token) - Len(key)] = "pad"

FernetPayload(key, token) == SubSeq(token, 3, Len(token) - Len(key) - 1)

\* An encrypt that hands back the encoded text itself.
encrypt_Plain(key, iv, data) == Utf8Encode(data)

\* Database.encrypt(data): the token of the UTF-8 bytes of data, as text.
encrypt(key, iv, data) == FernetEncrypt(key, iv, Utf8Encode(data))

\* Database.decrypt(encrypted_data): the text, or InvalidToken raised.
decrypt(key, encrypted_data) ==
    IF FernetValid(key, encrypted_data)
    THEN [err |-> "", val |-> Utf8Decode(FernetPayload(key, encrypted_data))]
    ELSE [err |-> "InvalidToken", val |-> <<>>]

Keys == { _derive_key(p) : p \in Passwords }

\* A token that encrypt produces, under some key.
IsToken(s) == \E k \in Keys : FernetValid(k, s)

-----------------------------------------------------------------------------
(* datetime values <<year, month, day, hour, minute, second, microsecond>>  *)
(* and their ISO-8601 text.                                                 *)

IsLeap(y) == (y % 4 = 0 /\ y % 100 # 0) \/ y % 400 = 0

DaysInMonth(y, m) ==
    IF m = 2 THEN (IF IsLeap(y) THEN 29 ELSE 28)
    ELSE IF m \in {4, 6, 9, 11} THEN 30 ELSE 31

\* dt + timedelta(days=1)
NextDay(dt) ==
    IF dt[3] < DaysInMonth(dt[1], dt[2]) THEN [dt EXCEPT ![3] = @ + 1]
    ELSE IF dt[2] < 12 THEN [dt EXCEPT ![2] = @ + 1, ![3] = 1]
    ELSE [dt EXCEPT ![1] = @ + 1, ![2] = 1, ![3] = 1]

\* dt - timedelta(days=1)
PrevDay(dt) ==
    IF dt[3] > 1 THEN [dt EXCEPT ![3] = @ - 1]
    ELSE IF dt[2] > 1
         THEN [dt EXCEPT ![2] = @ - 1, ![3] = DaysInMonth(dt[1], dt[2] - 1)]
         ELSE [dt EXCEPT ![1] = @ - 1, ![2] = 12, ![3] = 31]

\* dt + timedelta(days=n)
RECURSIVE AddDays(_, _)
AddDays(dt, n) == IF n = 0 THEN dt ELSE AddDays(NextDay(dt), n - 1)

\* dt - timedelta(microseconds=1)
MinusMicrosecond(dt) ==
    IF dt[7] > 0 THEN [dt EXCEPT ![7] = @ - 1]
    ELSE IF dt[6] > 0 THEN [dt EXCEPT ![6] = @ - 1, ![7] = 999999]
    ELSE IF dt[5] > 0 THEN [dt EXCEPT ![5] = @ - 1, ![6] = 59, ![7] = 999999]
    ELSE IF dt[4] > 0
         THEN [dt EXCEPT ![4] = @ - 1, ![5] = 59, ![6] = 59, ![7] = 999999]
         ELSE [PrevDay(dt) EXCEPT ![4] = 23, ![5] = 59, ![6] = 59, ![7] = 999999]

\* Two decimal digits, and the six digits of the microseconds.
Pad2(n) == IF n < 10 THEN <<"0", ToString(n)>> ELSE <<ToString(n)>>

RECURSIVE Digits(_)
Digits(n) == IF n < 10 THEN 1 ELSE 1 + Digits(n \div 10)

Pad6(n) == [i \in 1..(6 - Digits(n)) |-> "0"] \o <<ToString(n)>>

\* datetime.isoformat(): YYYY-MM-DDTHH:MM:SS, then .ffffff unless it is zero.
isoformat(dt) ==
    <<ToString(dt[1]), "-">> \o Pad2(dt[2]) \o <<"-">> \o Pad2(dt[3]) \o <<"T">>
    \o Pad2(dt[4]) \o <<":">> \o Pad2(dt[5]) \o <<":">> \o Pad2(dt[6])
    \o (IF dt[7] = 0 THEN <<>> ELSE <<".">> \o Pad6(dt[7]))

\* strftime('%B')
MonthName(m) ==
    <<"January", "February", "March", "April", "May", "June", "July",
      "August", "September", "October", "November", "December">>[m]

\* The date columns hold isoformat text and SQLite compares them as text.
\* The fields of isoformat text have fixed widths and a text without the
\* fraction is a prefix of the same instant with one, so the order of two
\* such texts is the lexicographic order of the datetime fields.
LexLE(a, b) ==
    \/ a = b
    \/ \E i \in 1..Len(a) : /\ a[i] < b[i]
                            /\ \A j \in 1..(i - 1) : a[j] = b[j]

\* The timestamps the callers supply, the months they condense, and the
\* absent argument (None).
Stamps == { <<2023, 4, 30, 23, 59, 59, 999999>>,
            <<2023, 5, 1, 0, 0, 0, 0>>,
            <<2023, 5, 31, 23, 59, 59, 999999>> }
Months == { <<4, 2023>>, <<5, 2023>> }
Clock == { <<2023, 5, 31, 23, 59, 59, 999999>> }
None == <<>>

-----------------------------------------------------------------------------
(* json.dumps and json.loads of the two payloads that are serialized: the   *)
(* profile, a dict of strings given as a sequence of <<key, value>> pairs,  *)
(* and the session record [transcript: list of str, notes: str].            *)

Quoted(x) == <<"\"", x, "\"">>

RECURSIVE JsonMembers(_)
JsonMembers(d) ==
    IF d = <<>> THEN <<>>
    ELSE Quoted(Head(d)[1]) \o <<": ">> \o Quoted(Head(d)[2])
         \o (IF Tail(d) = <<>> THEN <<>> ELSE <<", ">> \o JsonMembers(Tail(d)))

RECURSIVE JsonItems(_)
JsonItems(l) ==
    IF l = <<>> THEN <<>>
    ELSE Quoted(Head(l))
         \o (IF Tail(l) = <<>> THEN <<>> ELSE <<", ">> \o JsonItems(Tail(l)))

\* json.dumps(profile_data)
ProfileDumps(d) == <<"{">> \o JsonMembers(d) \o <<"}">>

\* json.dumps(session_data)
SessionDumps(sd) ==
    <<"{">> \o Quoted("transcript") \o <<": ", "[">> \o JsonItems(sd.transcript)
    \o <<"]", ", ">> \o Quoted("notes") \o <<": ">> \o Quoted(sd.notes) \o <<"}">>

\* The members of an object, from its text after the opening brace.
RECURSIVE ParseMembers(_)
ParseMembers(t) ==
    IF Head(t) = "}" THEN <<>>
    ELSE IF Head(t) = ", " THEN ParseMembers(Tail(t))
    ELSE << <<t[2], t[6]>> >> \o ParseMembers(SubSeq(t, 8, Len(t)))

\* The items of a list of strings, from its text after the opening bracket,
\* and the text that follows the list.
RECURSIVE ParseItems(_)
ParseItems(t) ==
    IF Head(t) = "]" THEN [items |-> <<>>, rest |-> Tail(t)]
    ELSE IF Head(t) = ", " THEN ParseItems(Tail(t))
    ELSE LET more == ParseItems(SubSeq(t, 4, Len(t)))
         IN  [items |-> <<t[2]>> \o more.items, rest |-> more.rest]

\* json.loads of a profile text
ProfileLoads(t) == ParseMembers(Tail(t))

\* A json.loads that brings back the notes and no transcript.
SessionLoads_NoTranscript(t) ==
    LET list == ParseItems(SubSeq(t, 7, Len(t)))
    IN  [transcript |-> <<>>, notes |-> list.rest[7]]

\* json.loads of a session text
SessionLoads(t) ==
    LET list == ParseItems(SubSeq(t, 7, Len(t)))
    IN  [transcript |-> list.items, notes |-> list.rest[7]]

\* The profiles, session records and approaches the callers supply.
Profiles == { << <<"name", "Ann">> >>, << <<"name", "Ann">>, <<"age", "30">> >> }
SessionRecords == { [transcript |-> <<"User: hi", "Therapist: hello">>,
                     notes |-> "calm"] }
Approaches == { "CBT" }

\* TherapyApproach(...).value
ApproachValue(a) ==
    CASE a = "FREUDIAN" -> "Freudian"
      [] a = "JUNGIAN" -> "Jungian"
      [] a = "CBT" -> "Cognitive Behavioral Therapy"
      [] a = "HUMANISTIC" -> "Humanistic"
      [] a = "EXISTENTIAL" -> "Existential"
      [] a = "PSYCHODYNAMIC" -> "Psychodynamic"

-----------------------------------------------------------------------------
(* The tables.                                                              *)

\* _initialize_db: the four tables, empty, and the AUTOINCREMENT counters
\* that SQLite keeps in sqlite_sequence (inside the same file, so that a
\* rollback restores them too).
EmptyContent ==
    [ user_profile |-> {}, journal_entries |-> {}, therapy_sessions |-> {},
      therapist_notes |-> {},
      sqlite_sequence |-> [ journal_entries |-> 0, therapy_sessions |-> 0,
                            therapist_notes |-> 0 ] ]

Inserted(c) ==
    c.sqlite_sequence.journal_entries + c.sqlite_sequence.therapy_sessions
    + c.sqlite_sequence.therapist_notes + Cardinality(c.user_profile)

\* An insert that numbers the new entry by the count of the entries held.
InsertJournal_CountIds(c, date, entry, is_condensed) ==
    LET id == Cardinality(c.journal_entries) + 1
    IN  [c EXCEPT !.journal_entries =
                      @ \cup {[id |-> id, date |-> date, entry |-> entry,
                               is_condensed |-> is_condensed]},
                  !.sqlite_sequence.journal_entries = id]

\* INSERT INTO journal_entries (date, entry[, is_condensed])
InsertJournal(c, date, entry, is_condensed) ==
    LET id == c.sqlite_sequence.journal_entries + 1
    IN  [c EXCEPT !.journal_entries =
                      @ \cup {[id |-> id, date |-> date, entry |-> entry,
                               is_condensed |-> is_condensed]},
                  !.sqlite_sequence.journal_entries = id]

\* INSERT INTO therapy_sessions (date, approach, session_data)
InsertSession(c, date, approach, session_data) ==
    LET id == c.sqlite_sequence.therapy_sessions + 1
    IN  [c EXCEPT !.therapy_sessions =
                      @ \cup {[id |-> id, date |-> date, approach |-> approach,
                               session_data |-> session_data]},
                  !.sqlite_sequence.therapy_sessions = id]

\* An insert that keeps the new note alone.
InsertNote_Replace(c, date, notes) ==
    LET id == c.sqlite_sequence.therapist_notes + 1
    IN  [c EXCEPT !.therapist_notes =
                      {[id |-> id, date |-> date, notes |-> notes]},
                  !.sqlite_sequence.therapist_notes = id]

\* INSERT INTO therapist_notes (date, notes)
InsertNote(c, date, notes) ==
    LET id == c.sqlite_sequence.therapist_notes + 1
    IN  [c EXCEPT !.therapist_notes =
                      @ \cup {[id |-> id, date |-> date, notes |-> notes]},
                  !.sqlite_sequence.therapist_notes = id]

\* A DELETE that takes every entry up to the id (WHERE id <= ?).
DeleteJournal_UpToId(c, id) ==
    [c EXCEPT !.journal_entries = {r \in @ : r.id > id}]

\* DELETE FROM journal_entries WHERE id = ?
DeleteJournal(c, id) ==
    [c EXCEPT !.journal_entries = {r \in @ : r.id # id}]

\* A WHERE clause whose upper bound is exclusive (date < ?).
Selected_EndExclusive(rows, start_date, end_date) ==
    { r \in rows : /\ start_date = None \/ LexLE(start_date, r.date)
                   /\ end_date = None
                      \/ (LexLE(r.date, end_date) /\ r.date # end_date) }

\* WHERE date >= ? AND date <= ?, each part present when its argument is
\* truthy.
Selected(rows, start_date, end_date) ==
    { r \in rows : /\ start_date = None \/ LexLE(start_date, r.date)
                   /\ end_date = None \/ LexLE(r.date, end_date) }

\* ORDER BY date DESC: the rows, newest first.  SQLite leaves the order of
\* rows with equal dates open.
RECURSIVE OrderByDateDesc(_)
OrderByDateDesc(rows) ==
    IF rows = {} THEN { <<>> }
    ELSE UNION { { <<r>> \o o : o \in OrderByDateDesc(rows \ {r}) } :
                 r \in { x \in rows : \A y \in rows : LexLE(y.date, x.date) } }

\* The date ranges the callers of the listing methods pass.
Ranges == { <<None, None>> }

-----------------------------------------------------------------------------
(* The listing loops: each row is decrypted in turn and the first row that  *)
(* does not decrypt raises out of the call.                                 *)

\* Whether every payload of the rows decrypts under the key.
AllDecrypt(key, payloads) ==
    \A i \in 1..Len(payloads) : FernetValid(key, payloads[i])

\* A listing loop that leaves out the rows that do not decrypt.
JournalDicts_SkipBad(key, rows) ==
    LET good == SelectSeq(rows, LAMBDA r : FernetValid(key, r.entry))
    IN  [err |-> "",
         val |-> [i \in 1..Len(good) |->
                    [id |-> good[i].id, date |-> good[i].date,
                     entry |-> decrypt(key, good[i].entry).val,
                     is_condensed |-> good[i].is_condensed # 0]]]

JournalDicts(key, rows) ==
    IF ~AllDecrypt(key, [i \in 1..Len(rows) |-> rows[i].entry])
    THEN [err |-> "InvalidToken", val |-> <<>>]
    ELSE [err |-> "",
          val |-> [i \in 1..Len(rows) |->
                     [id |-> rows[i].id, date |-> rows[i].date,
                      entry |-> decrypt(key, rows[i].entry).val,
                      is_condensed |-> rows[i].is_condensed # 0]]]

SessionDicts(key, rows) ==
    IF ~AllDecrypt(key, [i \in 1..Len(rows) |-> rows[i].session_data])
    THEN [err |-> "InvalidToken", val |-> <<>>]
    ELSE [err |-> "",
          val |-> [i \in 1..Len(rows) |->
                     [id |-> rows[i].id, date |-> rows[i].date,
                      approach |-> rows[i].approach,
                      session_data |->
                          SessionLoads(decrypt(key, rows[i].session_data).val)]]]

NoteDicts(key, rows) ==
    IF ~AllDecrypt(key, [i \in 1..Len(rows) |-> rows[i].notes])
    THEN [err |-> "InvalidToken", val |-> <<>>]
    ELSE [err |-> "",
          val |-> [i \in 1..Len(rows) |->
                     [id |-> rows[i].id, date |-> rows[i].date,
                      note |-> decrypt(key, rows[i].notes).val]]]

-----------------------------------------------------------------------------
(* condense_journal_entries: its range, its text and its deletes.           *)

\* target_month = datetime(year, month, 1)
TargetMonth(month, year) == <<year, month, 1, 0, 0, 0, 0>>

\* An end of range without the final step back of one microsecond: the
\* first instant of the next month.
MonthEnd_NextMonth(month, year) ==
    LET later == AddDays([<<year, month, 1, 0, 0, 0, 0>> EXCEPT ![3] = 28], 4)
    IN  [later EXCEPT ![3] = 1, ![4] = 0, ![5] = 0, ![6] = 0, ![7] = 0]

\* An end of range on the 30th day of the month, whatever the month.
MonthEnd_Day30(month, year) == <<year, month, 30, 23, 59, 59, 999999>>

\* (target_month.replace(day=28) + timedelta(days=4)).replace(day=1, hour=0,
\*  minute=0, second=0, microsecond=0) - timedelta(microseconds=1)
MonthEnd(month, year) ==
    LET later == AddDays([TargetMonth(month, year) EXCEPT ![3] = 28], 4)
    IN  MinusMicrosecond([later EXCEPT ![3] = 1, ![4] = 0, ![5] = 0,
                                       ![6] = 0, ![7] = 0])

\* The loop that appends "Date: ...\n...\n\n" for each entry.
RECURSIVE EntryLines(_)
EntryLines(entries) ==
    IF entries = <<>> THEN <<>>
    ELSE <<"Date: ">> \o isoformat(Head(entries).date) \o <<"\n">>
         \o Head(entries).entry \o <<"\n\n">> \o EntryLines(Tail(entries))

\* A condensed text that is the header alone.
CondensedText_HeaderOnly(month, year, entries) ==
    <<"Condensed journal entries for ", MonthName(month), " ",
      ToString(year), ":\n\n">>

CondensedText(month, year, entries) ==
    <<"Condensed journal entries for ", MonthName(month), " ",
      ToString(year), ":\n\n">> \o EntryLines(entries)

\* An INSERT of the condensed entry dated the last instant of the month and
\* without the flag.
InsertCondensed_Unflagged(c, key, iv, month, year, entries) ==
    InsertJournal(c, MonthEnd(month, year),
                  encrypt(key, iv, CondensedText(month, year, entries)), 0)

\* The INSERT of the condensed entry: the text of the entries, encrypted,
\* dated the first instant of the month, is_condensed = 1.
InsertCondensed(c, key, iv, month, year, entries) ==
    InsertJournal(c, TargetMonth(month, year),
                  encrypt(key, iv, CondensedText(month, year, entries)), 1)

\* The first k passes of the loop that deletes the original entries.
RECURSIVE DeleteEntries(_, _, _)
DeleteEntries(c, entries, k) ==
    IF k = 0 THEN c
    ELSE DeleteEntries(DeleteJournal(c, Head(entries).id), Tail(entries), k - 1)

-----------------------------------------------------------------------------
(* The state machine.                                                       *)

Ret(op, args, err, val) == [op |-> op, args |-> args, err |-> err, val |-> val]

NoFailure == [raised |-> FALSE, summary |-> 0, originals |-> {}]

\* The configuration (config.json).  A JSON document is an object, given by
\* its members, or a value of another type.
DefaultKeys ==
    { "llm_provider", "llm_model", "default_therapy_approach", "api_keys" }

JsonObject(members) == [type |-> "object", members |-> members]
JsonArray == [type |-> "array", members |-> <<>>]

\* _create_default_config: the dict of the defaults.
DefaultConfig ==
    JsonObject([llm_provider |-> "Anthropic",
                llm_model |-> "claude-3-7-sonnet-20250219",
                default_therapy_approach |-> "Cognitive Behavioral Therapy",
                api_keys |-> {}])

Without(config, keys) ==
    JsonObject([k \in DOMAIN config.members \ keys |-> config.members[k]])

\* What the path of config.json can hold: nothing, a file that cannot be
\* opened, a text that is no JSON, or a JSON document.
ConfigFiles ==
    { [kind |-> "absent"], [kind |-> "unreadable"],
      [kind |-> "text", text |-> "{\"llm_provider\": "] }
    \cup { [kind |-> "json", value |-> v] :
              v \in { DefaultConfig, JsonArray,
                      Without(DefaultConfig, DefaultKeys),
                      Without(DefaultConfig, {"default_therapy_approach"}),
                      Without(DefaultConfig, {"api_keys"}) } }

\* DrClaude before run(): no handle (self.db = None), no session; no
\* config.json was there, the defaults were taken and saved.
AppInit ==
    [pc |-> "locked", unlocked |-> FALSE, closes |-> 0, cmd |-> "",
     session_transcript |-> <<>>, current_notes |-> "", message_count |-> 0,
     date_bound |-> FALSE, date |-> <<>>,
     today |-> <<>>, current_month |-> <<>>, months_condensed |-> 0,
     config |-> DefaultConfig,
     config_file |-> [kind |-> "json", value |-> DefaultConfig]]

Init ==
    /\ app = AppInit
    /\ disk = EmptyContent
    /\ conn = EmptyContent
    /\ db = [state |-> "none", key |-> <<>>, password |-> <<>>]
    /\ ret = Ret("", <<>>, "", <<>>)
    /\ writers = {}
    /\ failed = NoFailure

IsOpen == db.state = "open"

\* if date is None: date = datetime.datetime.now().isoformat()
Now(date) == IF date = None THEN Clock ELSE {date}

\* A constructor that reads the stored profile to verify the password and
\* raises when it does not decrypt.
Open_Verifying(password) ==
    /\ db.state # "open"
    /\ LET key == _derive_key(password)
           ok == \A r \in disk.user_profile : FernetValid(key, r.profile_data)
       IN  /\ db' = IF ok THEN [state |-> "open", key |-> key,
                                password |-> password]
                          ELSE db
           /\ ret' = Ret("__init__", <<password>>,
                         IF ok THEN "" ELSE "InvalidToken", <<>>)
    /\ conn' = disk
    /\ UNCHANGED <<disk, writers, failed>>

\* A constructor whose derivation takes a fresh salt for each handle.
Open_FreshSalt(password) ==
    /\ db.state # "open"
    /\ \E salt \in {"s1", "s2"} :
          db' = [state |-> "open", key |-> <<salt>> \o _derive_key(password),
                 password |-> password]
    /\ conn' = disk
    /\ ret' = Ret("__init__", <<password>>, "", <<>>)
    /\ UNCHANGED <<disk, writers, failed>>

\* Database(db_path, password): the key is derived, the file is opened (and
\* created with empty tables when absent); nothing stored is read.
Open(password) ==
    /\ db.state # "open"
    /\ db' = [state |-> "open", key |-> _derive_key(password),
              password |-> password]
    /\ conn' = disk
    /\ ret' = Ret("__init__", <<password>>, "", <<>>)
    /\ UNCHANGED <<disk, writers, failed>>

\* close(): the connection is closed; sqlite3 rolls back what it had not
\* committed.
Close ==
    /\ IsOpen
    /\ db' = [db EXCEPT !.state = "closed"]
    /\ conn' = disk
    /\ failed' = IF conn # disk THEN NoFailure ELSE failed
    /\ ret' = Ret("close", <<>>, "", <<>>)
    /\ UNCHANGED <<disk, writers>>

\* Every write ends in connection.commit(), which commits all that the
\* connection has pending.
Commit(c) ==
    /\ conn' = c
    /\ disk' = c
    /\ writers' = writers \cup {db.password}

\* A call on a closed handle that returns as if nothing were stored.
ClosedCall_Silent(op, args) ==
    /\ db.state = "closed"
    /\ ret' = Ret(op, args, "", <<>>)
    /\ UNCHANGED <<disk, conn, db, writers, failed>>

\* A call of a method that uses the cursor, on a handle that was closed:
\* the first cursor.execute raises sqlite3.ProgrammingError ("Cannot operate
\* on a closed database."), before anything is read or written.
ClosedCall(op, args) ==
    /\ db.state = "closed"
    /\ ret' = Ret(op, args, "ProgrammingError", <<>>)
    /\ UNCHANGED <<disk, conn, db, writers, failed>>

\* A save_user_profile that inserts a further row when one exists already.
save_user_profile_InsertOnly(profile_data, iv) ==
    LET encrypted_data == encrypt(db.key, iv, ProfileDumps(profile_data))
        row == [id |-> Cardinality(conn.user_profile) + 1,
                profile_data |-> encrypted_data]
    IN  \/ ClosedCall("save_user_profile", <<profile_data>>)
        \/ /\ IsOpen
           /\ Inserted(conn) < MaxInserts
           /\ Commit([conn EXCEPT !.user_profile = @ \cup {row}])
           /\ ret' = Ret("save_user_profile", <<profile_data>>, "", <<>>)
           /\ UNCHANGED <<db, failed>>

save_user_profile(profile_data, iv) ==
    LET encrypted_data == encrypt(db.key, iv, ProfileDumps(profile_data))
        row == [id |-> 1, profile_data |-> encrypted_data]
    IN  \/ ClosedCall("save_user_profile", <<profile_data>>)
        \/ /\ IsOpen
           /\ \/ /\ Cardinality(conn.user_profile) = 0
                 /\ Inserted(conn) < MaxInserts
                 /\ Commit([conn EXCEPT !.user_profile = {row}])
              \/ /\ Cardinality(conn.user_profile) # 0
                 /\ Commit([conn EXCEPT !.user_profile =
                               { IF r.id = 1 THEN row ELSE r : r \in @ }])
           /\ ret' = Ret("save_user_profile", <<profile_data>>, "", <<>>)
           /\ UNCHANGED <<db, failed>>

\* A get_user_profile that answers the empty map when the row does not
\* decrypt.
get_user_profile_Swallow ==
    \/ ClosedCall("get_user_profile", <<>>)
    \/ /\ IsOpen
       /\ \/ /\ \A r \in conn.user_profile : ~FernetValid(db.key, r.profile_data)
             /\ ret' = Ret("get_user_profile", <<>>, "", <<>>)
          \/ \E r \in conn.user_profile :
                /\ FernetValid(db.key, r.profile_data)
                /\ ret' = Ret("get_user_profile", <<>>, "",
                              ProfileLoads(decrypt(db.key, r.profile_data).val))
       /\ UNCHANGED <<disk, conn, db, writers, failed>>

get_user_profile ==
    \/ ClosedCall("get_user_profile", <<>>)
    \/ /\ IsOpen
       /\ LET result == { r \in conn.user_profile : r.id = 1 }
          IN  \/ /\ result = {}
                 /\ ret' = Ret("get_user_profile", <<>>, "", <<>>)
              \/ \E r \in result :
                   LET json_data == decrypt(db.key, r.profile_data)
                   IN  ret' = Ret("get_user_profile", <<>>, json_data.err,
                                  IF json_data.err = ""
                                  THEN ProfileLoads(json_data.val) ELSE <<>>)
       /\ UNCHANGED <<disk, conn, db, writers, failed>>

\* An add_journal_entry that encrypts under the key of a built-in password
\* instead of the key of the handle.
add_journal_entry_BuiltinKey(entry, date, iv) ==
    /\ IsOpen
    /\ Inserted(conn) < MaxInserts
    /\ \E d \in Now(date) :
          Commit(InsertJournal(conn, d,
                               encrypt(_derive_key(<<"q">>), iv, entry), 0))
    /\ ret' = Ret("add_journal_entry", <<entry, date>>, "", <<>>)
    /\ UNCHANGED <<db, failed>>

add_journal_entry(entry, date, iv) ==
    \/ ClosedCall("add_journal_entry", <<entry, date>>)
    \/ /\ IsOpen
       /\ Inserted(conn) < MaxInserts
       /\ \E d \in Now(date) :
             Commit(InsertJournal(conn, d, encrypt(db.key, iv, entry), 0))
       /\ ret' = Ret("add_journal_entry", <<entry, date>>, "", <<>>)
       /\ UNCHANGED <<db, failed>>

\* A get_journal_entries without the ORDER BY: the rows in the order of
\* their ids.
get_journal_entries_ById(start_date, end_date) ==
    \/ ClosedCall("get_journal_entries", <<start_date, end_date>>)
    \/ /\ IsOpen
       /\ LET sel == Selected(conn.journal_entries, start_date, end_date)
              rows == [i \in 1..Cardinality(sel) |->
                         CHOOSE r \in sel :
                            Cardinality({x \in sel : x.id < r.id}) = i - 1]
              entries == JournalDicts(db.key, rows)
          IN  ret' = Ret("get_journal_entries", <<start_date, end_date>>,
                         entries.err, entries.val)
       /\ UNCHANGED <<disk, conn, db, writers, failed>>

get_journal_entries(start_date, end_date) ==
    \/ ClosedCall("get_journal_entries", <<start_date, end_date>>)
    \/ /\ IsOpen
       /\ \E rows \in OrderByDateDesc(
                          Selected(conn.journal_entries, start_date, end_date)) :
             LET entries == JournalDicts(db.key, rows)
             IN  ret' = Ret("get_journal_entries", <<start_date, end_date>>,
                            entries.err, entries.val)
       /\ UNCHANGED <<disk, conn, db, writers, failed>>

add_therapy_session(approach, session_data, date, iv) ==
    LET encrypted_data == encrypt(db.key, iv, SessionDumps(session_data))
    IN  \/ ClosedCall("add_therapy_session", <<approach, session_data, date>>)
        \/ /\ IsOpen
           /\ Inserted(conn) < MaxInserts
           /\ \E d \in Now(date) :
                 Commit(InsertSession(conn, d, ApproachValue(approach),
                                      encrypted_data))
           /\ ret' = Ret("add_therapy_session",
                         <<approach, session_data, date>>, "", <<>>)
           /\ UNCHANGED <<db, failed>>

get_therapy_sessions(start_date, end_date) ==
    \/ ClosedCall("get_therapy_sessions", <<start_date, end_date>>)
    \/ /\ IsOpen
       /\ \E rows \in OrderByDateDesc(
                          Selected(conn.therapy_sessions, start_date, end_date)) :
             LET sessions == SessionDicts(db.key, rows)
             IN  ret' = Ret("get_therapy_sessions", <<start_date, end_date>>,
                            sessions.err, sessions.val)
       /\ UNCHANGED <<disk, conn, db, writers, failed>>

add_therapist_note(note, date, iv) ==
    \/ ClosedCall("add_therapist_note", <<note, date>>)
    \/ /\ IsOpen
       /\ Inserted(conn) < MaxInserts
       /\ \E d \in Now(date) :
             Commit(InsertNote(conn, d, encrypt(db.key, iv, note)))
       /\ ret' = Ret("add_therapist_note", <<note, date>>, "", <<>>)
       /\ UNCHANGED <<db, failed>>

get_therapist_notes(start_date, end_date) ==
    \/ ClosedCall("get_therapist_notes", <<start_date, end_date>>)
    \/ /\ IsOpen
       /\ \E rows \in OrderByDateDesc(
                          Selected(conn.therapist_notes, start_date, end_date)) :
             LET notes == NoteDicts(db.key, rows)
             IN  ret' = Ret("get_therapist_notes", <<start_date, end_date>>,
                            notes.err, notes.val)
       /\ UNCHANGED <<disk, conn, db, writers, failed>>

\* condense_journal_entries(month, year).  ret.val holds the entries that the
\* call fetched.  With raises, the statement that follows the INSERT and k
\* of the DELETEs raises (the next DELETE, or the commit), which leaves the
\* transaction that the INSERT began open on the connection.  One such fault
\* is followed at a time: no second one is injected while failed.raised.
condense_journal_entries(month, year, iv, raises) ==
    \/ ClosedCall("condense_journal_entries", <<month, year>>) /\ ~raises
    \/ /\ IsOpen
       /\ \E rows \in OrderByDateDesc(
                          Selected(conn.journal_entries, TargetMonth(month, year),
                                   MonthEnd(month, year))) :
             \E got \in { JournalDicts(db.key, rows) } :
                 \/ /\ got.err # ""
                    /\ ~raises
                    /\ ret' = Ret("condense_journal_entries", <<month, year>>,
                                  got.err, <<>>)
                    /\ UNCHANGED <<disk, conn, writers, failed>>
                 \/ /\ got.err = ""
                    /\ got.val = <<>>
                    /\ ~raises
                    /\ ret' = Ret("condense_journal_entries", <<month, year>>,
                                  "", got.val)
                    /\ UNCHANGED <<disk, conn, writers, failed>>
                 \/ /\ got.err = ""
                    /\ got.val # <<>>
                    /\ ~raises
                    /\ Inserted(conn) < MaxInserts
                    /\ Commit(DeleteEntries(
                           InsertCondensed(conn, db.key, iv, month, year, got.val),
                           got.val, Len(got.val)))
                    /\ ret' = Ret("condense_journal_entries", <<month, year>>,
                                  "", got.val)
                    /\ failed' = NoFailure
                 \/ /\ got.err = ""
                    /\ got.val # <<>>
                    /\ raises
                    /\ ~failed.raised
                    /\ Inserted(conn) < MaxInserts
                    /\ \E inserted \in { InsertCondensed(conn, db.key, iv, month,
                                                         year, got.val) } :
                          /\ \E k \in 0..Len(got.val) :
                                conn' = DeleteEntries(inserted, got.val, k)
                          /\ failed' =
                                [raised |-> TRUE,
                                 summary |-> inserted.sqlite_sequence.journal_entries,
                                 originals |-> { got.val[i].id :
                                                 i \in 1..Len(got.val) }]
                    /\ ret' = Ret("condense_journal_entries", <<month, year>>,
                                  "OperationalError", got.val)
                    /\ UNCHANGED <<disk, writers>>
       /\ UNCHANGED db

Next ==
    \/ \E password \in StorePasswords : Open(password) /\ UNCHANGED app
    \/ Close /\ UNCHANGED app
    \/ \E profile_data \in Profiles, iv \in StoreIVs :
          save_user_profile(profile_data, iv) /\ UNCHANGED app
    \/ get_user_profile /\ UNCHANGED app
    \/ \E entry \in Texts, date \in Stamps \cup {None}, iv \in StoreIVs :
          add_journal_entry(entry, date, iv) /\ UNCHANGED app
    \/ \E range \in Ranges : get_journal_entries(range[1], range[2])
          /\ UNCHANGED app
    \/ \E approach \in Approaches, session_data \in SessionRecords,
          date \in {None}, iv \in StoreIVs :
          add_therapy_session(approach, session_data, date, iv)
          /\ UNCHANGED app
    \/ \E range \in Ranges : get_therapy_sessions(range[1], range[2])
          /\ UNCHANGED app
    \/ \E note \in NoteTexts, date \in {None}, iv \in StoreIVs :
          add_therapist_note(note, date, iv) /\ UNCHANGED app
    \/ \E range \in Ranges : get_therapist_notes(range[1], range[2])
          /\ UNCHANGED app
    \/ \E my \in Months, iv \in StoreIVs, raises \in BOOLEAN :
          condense_journal_entries(my[1], my[2], iv, raises) /\ UNCHANGED app

Spec == Init /\ [][Next]_vars

-----------------------------------------------------------------------------
(* The same store opened under several passwords in turn.                   *)

NextKeys ==
    \/ \E password \in Passwords : Open(password) /\ UNCHANGED app
    \/ Close /\ UNCHANGED app
    \/ \E iv \in StoreIVs : save_user_profile(<< <<"name", "Ann">> >>, iv)
          /\ UNCHANGED app
    \/ get_user_profile /\ UNCHANGED app
    \/ \E iv \in StoreIVs : add_journal_entry(<<"a">>, None, iv)
          /\ UNCHANGED app
    \/ get_journal_entries(None, None) /\ UNCHANGED app
    \/ \E session_data \in SessionRecords, iv \in StoreIVs :
          add_therapy_session("CBT", session_data, None, iv) /\ UNCHANGED app
    \/ get_therapy_sessions(None, None) /\ UNCHANGED app
    \/ \E note \in NoteTexts, iv \in StoreIVs : add_therapist_note(note, None, iv)
          /\ UNCHANGED app
    \/ get_therapist_notes(None, None) /\ UNCHANGED app
    \/ \E iv \in StoreIVs : condense_journal_entries(5, 2023, iv, FALSE)
          /\ UNCHANGED app

SpecKeys == Init /\ [][NextKeys]_vars

-----------------------------------------------------------------------------
(* The codec alone: encrypt and decrypt called on a handle (they use the     *)
(* Fernet object alone and work on a closed handle too), decrypt on a token *)
(* that a handle opened with the password producer returned.                *)

CodecTexts == Texts \cup { <<>>, <<NUL>>, <<"a", NonAscii, "b">> }

Encrypt(data, iv) ==
    /\ db.state # "none"
    /\ ret' = Ret("encrypt", <<data, iv>>, "", encrypt(db.key, iv, data))
    /\ UNCHANGED <<disk, conn, db, writers, failed>>

Decrypt(producer, iv, data) ==
    /\ db.state # "none"
    /\ LET encrypted_data == encrypt(_derive_key(producer), iv, data)
           r == decrypt(db.key, encrypted_data)
       IN  ret' = Ret("decrypt", <<producer, iv, data>>, r.err, r.val)
    /\ UNCHANGED <<disk, conn, db, writers, failed>>

NextCodec ==
    \/ \E password \in Passwords : Open(password) /\ UNCHANGED app
    \/ Close /\ UNCHANGED app
    \/ \E data \in CodecTexts, iv \in IVs : Encrypt(data, iv) /\ UNCHANGED app
    \/ \E producer \in Passwords, iv \in IVs, data \in CodecTexts :
          Decrypt(producer, iv, data) /\ UNCHANGED app

SpecCodec == Init /\ [][NextCodec]_vars

-----------------------------------------------------------------------------
(* The text generation of src/src/llm.py.  The provider is outside: its     *)
(* call returns a text or raises.                                           *)

ResponseOutcomes == { [failed |-> FALSE, text |-> "Hello. Go on"],
                      [failed |-> TRUE, text |-> "rate limit"] }
NotesOutcomes == { [failed |-> FALSE, text |-> "calm"],
                   [failed |-> TRUE, text |-> "rate limit"] }

\* _clean_response: a greeting at the start of the text is removed.
_clean_response(response_text) ==
    IF response_text = "Hello. Go on" THEN "Go on" ELSE response_text

\* A generate_response that reports a failure of the provider in its
\* 'response' text alone.
generate_response_NoErrorField(outcome) ==
    IF outcome.failed
    THEN [response |-> <<"Error generating response: ", outcome.text>>,
          model |-> "claude-3-7-sonnet-20250219", provider |-> "Anthropic"]
    ELSE [response |-> <<_clean_response(outcome.text)>>,
          model |-> "claude-3-7-sonnet-20250219", provider |-> "Anthropic"]

\* TherapistLLM.generate_response: the provider call and the cleaning are in
\* a try whose except returns the dict with the 'error' field.
generate_response(outcome) ==
    IF outcome.failed
    THEN [response |-> <<"Error generating response: ", outcome.text>>,
          error |-> outcome.text,
          model |-> "claude-3-7-sonnet-20250219", provider |-> "Anthropic"]
    ELSE [response |-> <<_clean_response(outcome.text)>>,
          model |-> "claude-3-7-sonnet-20250219", provider |-> "Anthropic"]

\* TherapistLLM.generate_therapist_notes: the except returns the text
\* "Error generating therapist notes: ..." in the place of the notes.
generate_therapist_notes(outcome) ==
    IF outcome.failed
    THEN CASE outcome.text = "rate limit" ->
                  "Error generating therapist notes: rate limit"
    ELSE _clean_response(outcome.text)

-----------------------------------------------------------------------------
(* DrClaude (src/src/app.py): run(), the main menu and the therapy session. *)

\* Messages of a session, and the count of replies after which the notes
\* are saved (10 in the code), scaled down.
MaxMessages == 2
auto_save_threshold == 2

UserMessages == { "hi" }

\* f"User: {user_input}" and f"Therapist: {therapist_response}"
UserLine(user_input) == CASE user_input = "hi" -> "User: hi"
TherapistLine(therapist_response) ==
    CASE therapist_response = <<"Go on">> -> "Therapist: Go on"
      [] therapist_response = <<"Error generating response: ", "rate limit">>
             -> "Therapist: Error generating response: rate limit"

\* An exception that leaves main_menu is caught in run().
Raised(exc) == [app EXCEPT !.pc = "raised", !.cmd = exc]

\* The position after a call of the store from the menu.
AfterCall(r) == IF r.err = "" THEN app ELSE Raised(r.err)

\* main_menu: the password is asked for while self.db is None.
unlock_vault(password) ==
    /\ app.pc = "locked"
    /\ Open(password)
    /\ app' = [app EXCEPT !.pc = "menu", !.unlocked = TRUE]

\* main_menu: unlock_vault returned False (Database() raised) and the user
\* does not try again.
unlock_given_up ==
    /\ app.pc = "locked"
    /\ ret' = Ret("unlock_vault", <<>>, "OperationalError", <<>>)
    /\ app' = [app EXCEPT !.pc = "returned"]
    /\ UNCHANGED <<disk, conn, db, writers, failed>>

\* Menu choice 1.
menu_add_journal_entry(entry, iv) ==
    /\ app.pc = "menu"
    /\ \E d \in Clock : add_journal_entry(entry, d, iv)
    /\ app' = AfterCall(ret')

\* Menu choice 9: self.db.close(); "Goodbye!" is still to be printed.
menu_exit ==
    /\ app.pc = "menu"
    /\ Close
    /\ app' = [app EXCEPT !.pc = "goodbye", !.closes = @ + 1]

\* Menu choice 9, after the close: "Goodbye!" is printed, the loop is left
\* and run() returns.
menu_break ==
    /\ app.pc = "goodbye"
    /\ ret' = Ret("run", <<>>, "", <<>>)
    /\ app' = [app EXCEPT !.pc = "returned"]
    /\ UNCHANGED <<disk, conn, db, writers, failed>>

\* Ctrl+C or the end of input at a prompt of the menu or of the session, or
\* while "Goodbye!" is printed.
prompt_raises(exc) ==
    /\ app.pc \in {"locked", "menu", "session", "goodbye"}
    /\ ret' = Ret("input", <<>>, exc, <<>>)
    /\ app' = Raised(exc)
    /\ UNCHANGED <<disk, conn, db, writers, failed>>

\* A run() whose handlers do not close the handle.
run_except_NoClose ==
    /\ app.pc = "raised"
    /\ ret' = Ret("run", <<>>, "", <<>>)
    /\ app' = [app EXCEPT !.pc = "returned"]
    /\ UNCHANGED <<disk, conn, db, writers, failed>>

\* run(): except KeyboardInterrupt / except Exception: the handle, if there
\* is one, is closed and run() returns.  Database.close() on a handle that
\* is closed already closes nothing.  'closes' counts the times the handle
\* went from open to closed.
run_except ==
    /\ app.pc = "raised"
    /\ \/ /\ app.unlocked
          /\ Close
          /\ app' = [app EXCEPT !.pc = "returned", !.closes = @ + 1]
       \/ /\ app.unlocked
          /\ db.state = "closed"
          /\ ret' = Ret("close", <<>>, "", <<>>)
          /\ app' = [app EXCEPT !.pc = "returned"]
          /\ UNCHANGED <<disk, conn, db, writers, failed>>
       \/ /\ ~app.unlocked
          /\ ret' = Ret("run", <<>>, "", <<>>)
          /\ app' = [app EXCEPT !.pc = "returned"]
          /\ UNCHANGED <<disk, conn, db, writers, failed>>

\* Menu choice 3, up to the first prompt of the session: the LLM is
\* initialized if need be (no session when that fails), the profile, the
\* journal and the notes are read, and the locals of the session are set.
start_therapy_session(approach, llm_ok) ==
    /\ app.pc = "menu"
    /\ LET readable ==
               \A t \in { r.profile_data : r \in conn.user_profile }
                        \cup { r.entry : r \in conn.journal_entries }
                        \cup { r.notes : r \in conn.therapist_notes } :
                  FernetValid(db.key, t)
       IN  /\ ret' = Ret("start_therapy_session", <<approach>>,
                         IF llm_ok /\ ~readable THEN "InvalidToken" ELSE "",
                         <<>>)
           /\ app' = IF ~llm_ok THEN app
                     ELSE IF ~readable THEN Raised("InvalidToken")
                     ELSE [app EXCEPT !.pc = "session", !.cmd = "",
                                      !.session_transcript = <<>>,
                                      !.current_notes = "",
                                      !.message_count = 0,
                                      !.date_bound = FALSE, !.date = <<>>]
    /\ UNCHANGED <<disk, conn, db, writers, failed>>

\* An auto-save that waits for the count to pass the threshold.
AutoSaveDue_Late(message_count, timeup) ==
    message_count > auto_save_threshold \/ timeup

\* if message_count >= auto_save_threshold or time_diff >= 15
AutoSaveDue(message_count, timeup) ==
    message_count >= auto_save_threshold \/ timeup

\* The messages typed so far in the session.
Typed == { i \in DOMAIN app.session_transcript :
           app.session_transcript[i] \in { UserLine(m) : m \in UserMessages } }

\* A message of the session that is not a command.  The line of the user is
\* appended before the reply is asked for; a reply with the 'error' field
\* is printed and the loop continues; otherwise the reply is appended and
\* counted, and the notes are generated and saved when the count reaches
\* the threshold or 15 minutes have passed (timeup).
session_message(user_input, outcome, timeup, notes_outcome, iv) ==
    /\ app.pc = "session"
    /\ Cardinality(Typed) < MaxMessages
    /\ \E response \in { generate_response(outcome) } :
          /\ ret' = Ret("generate_response", <<outcome>>, "", response)
          /\ \/ /\ "error" \in DOMAIN response
                /\ app' = [app EXCEPT !.cmd = "message",
                               !.session_transcript =
                                   Append(@, UserLine(user_input))]
                /\ UNCHANGED <<disk, conn, db, writers, failed>>
             \/ /\ "error" \notin DOMAIN response
                /\ ~AutoSaveDue(app.message_count + 1, timeup)
                /\ app' = [app EXCEPT !.cmd = "message",
                               !.session_transcript =
                                   @ \o <<UserLine(user_input),
                                          TherapistLine(response.response)>>,
                               !.message_count = @ + 1]
                /\ UNCHANGED <<disk, conn, db, writers, failed>>
             \/ /\ "error" \notin DOMAIN response
                /\ AutoSaveDue(app.message_count + 1, timeup)
                /\ Inserted(conn) < MaxInserts
                /\ \E d \in Clock,
                      notes \in { generate_therapist_notes(notes_outcome) } :
                      /\ Commit(InsertNote(conn, d,
                                           encrypt(db.key, iv, <<notes>>)))
                      /\ app' = [app EXCEPT !.cmd = "message",
                                     !.session_transcript =
                                         @ \o <<UserLine(user_input),
                                                TherapistLine(response.response)>>,
                                     !.current_notes = notes,
                                     !.message_count = 0,
                                     !.date_bound = TRUE, !.date = d]
                /\ UNCHANGED <<db, failed>>

\* The command 'notes': the notes are generated if there are none yet.
session_notes(notes_outcome) ==
    /\ app.pc = "session"
    /\ app' = [app EXCEPT !.cmd = "notes",
                   !.current_notes =
                       IF @ = "" THEN generate_therapist_notes(notes_outcome)
                       ELSE @]
    /\ ret' = Ret("generate_therapist_notes", <<notes_outcome>>, "",
                  app'.current_notes)
    /\ UNCHANGED <<disk, conn, db, writers, failed>>

\* The command 'save': the notes are generated and saved, the count is
\* reset.
session_save(notes_outcome, iv) ==
    /\ app.pc = "session"
    /\ Inserted(conn) < MaxInserts
    /\ \E d \in Clock, notes \in { generate_therapist_notes(notes_outcome) } :
          /\ Commit(InsertNote(conn, d, encrypt(db.key, iv, <<notes>>)))
          /\ ret' = Ret("add_therapist_note", <<<<notes>>, d>>, "", <<>>)
          /\ app' = [app EXCEPT !.cmd = "save", !.current_notes = notes,
                         !.message_count = 0,
                         !.date_bound = TRUE, !.date = d]
    /\ UNCHANGED <<db, failed>>

\* The commands 'end', 'exit' and 'quit': after the loop the final notes are
\* generated and saved if replies were counted since the last save, which
\* binds 'date'; the record of the session is then added under 'date'.  When
\* 'date' was never bound the call raises UnboundLocalError before the
\* store is reached.
session_end(approach, notes_outcome, iv) ==
    /\ app.pc = "session"
    /\ \/ /\ app.message_count > 0
          /\ Inserted(conn) + 2 <= MaxInserts
          /\ \E d \in Clock,
                notes \in { generate_therapist_notes(notes_outcome) } :
                /\ Commit(InsertSession(
                       InsertNote(conn, d, encrypt(db.key, iv, <<notes>>)),
                       d, ApproachValue(approach),
                       encrypt(db.key, iv,
                               SessionDumps(
                                   [transcript |-> app.session_transcript,
                                    notes |-> notes]))))
                /\ app' = [app EXCEPT !.pc = "menu", !.cmd = "end",
                               !.current_notes = notes,
                               !.date_bound = TRUE, !.date = d]
          /\ ret' = Ret("add_therapy_session", <<approach>>, "", <<>>)
          /\ UNCHANGED <<db, failed>>
       \/ /\ app.message_count = 0
          /\ app.date_bound
          /\ Inserted(conn) < MaxInserts
          /\ Commit(InsertSession(
                 conn, app.date, ApproachValue(approach),
                 encrypt(db.key, iv,
                         SessionDumps([transcript |-> app.session_transcript,
                                       notes |-> app.current_notes]))))
          /\ app' = [app EXCEPT !.pc = "menu", !.cmd = "end"]
          /\ ret' = Ret("add_therapy_session", <<approach>>, "", <<>>)
          /\ UNCHANGED <<db, failed>>
       \/ /\ app.message_count = 0
          /\ ~app.date_bound
          /\ ret' = Ret("add_therapy_session", <<approach>>,
                        "UnboundLocalError", <<>>)
          /\ app' = [Raised("UnboundLocalError") EXCEPT !.cmd = "end"]
          /\ UNCHANGED <<disk, conn, db, writers, failed>>

NextApp ==
    \/ \E password \in StorePasswords : unlock_vault(password)
    \/ unlock_given_up
    \/ \E entry \in Texts, iv \in StoreIVs : menu_add_journal_entry(entry, iv)
    \/ menu_exit
    \/ menu_break
    \/ \E exc \in {"KeyboardInterrupt", "EOFError"} : prompt_raises(exc)
    \/ run_except
    \/ \E approach \in Approaches, llm_ok \in BOOLEAN :
          start_therapy_session(approach, llm_ok)
    \/ \E user_input \in UserMessages, outcome \in ResponseOutcomes,
          timeup \in BOOLEAN, notes_outcome \in NotesOutcomes,
          iv \in StoreIVs :
          session_message(user_input, outcome, timeup, notes_outcome, iv)
    \/ \E notes_outcome \in NotesOutcomes : session_notes(notes_outcome)
    \/ \E notes_outcome \in NotesOutcomes, iv \in StoreIVs :
          session_save(notes_outcome, iv)
    \/ \E approach \in Approaches, notes_outcome \in NotesOutcomes,
          iv \in StoreIVs : session_end(approach, notes_outcome, iv)

SpecApp == Init /\ [][NextApp]_vars

-----------------------------------------------------------------------------
(* The configuration of DrClaude: _load_config in the constructor, and      *)
(* menu choice 7.                                                           *)

Providers == { "Anthropic", "OpenAI", "Ollama" }
ApiKeys == { "", "sk-1" }
ModelChoices == { "", "claude-3-opus-20240229" }
ApproachChoices == { "", "Freudian" }

\* json.load on the open file: the document, or the exception of open() or
\* of the parser.
json_load(file) ==
    CASE file.kind = "unreadable" -> [err |-> "PermissionError"]
      [] file.kind = "text" -> [err |-> "JSONDecodeError"]
      [] file.kind = "json" -> [err |-> "", value |-> file.value]

\* A _load_config that hands on what it could read, and an object without
\* members when it could read nothing.
_load_config_NoFallback(file) ==
    IF file.kind = "json" THEN file.value
    ELSE Without(DefaultConfig, DefaultKeys)

\* _load_config: the document of the file when there is a file and
\* json.load returns; the defaults otherwise.
_load_config(file) ==
    IF file.kind # "absent" /\ json_load(file).err = ""
    THEN json_load(file).value
    ELSE DefaultConfig

\* _save_config: the file holds the dumped config, or is left as it was
\* when open() or the write raised (the exception is printed).
_save_config(file, config, writable) ==
    IF writable THEN [kind |-> "json", value |-> config] ELSE file

NotLoaded == [type |-> "unset", members |-> <<>>]

InitConfig ==
    /\ \E file \in ConfigFiles :
          app = [AppInit EXCEPT !.pc = "constructing", !.config = NotLoaded,
                                !.config_file = file]
    /\ disk = EmptyContent
    /\ conn = EmptyContent
    /\ db = [state |-> "none", key |-> <<>>, password |-> <<>>]
    /\ ret = Ret("", <<>>, "", <<>>)
    /\ writers = {}
    /\ failed = NoFailure

\* DrClaude.__init__: self.config = self._load_config(); the defaults are
\* saved when they were taken.
DrClaude_init(writable) ==
    /\ app.pc = "constructing"
    /\ \E config \in { _load_config(app.config_file) } :
          /\ ret' = Ret("_load_config", <<app.config_file>>, "", config)
          /\ app' = [app EXCEPT
                       !.pc = "locked",
                       !.config = config,
                       !.config_file =
                           IF @.kind # "absent" /\ json_load(@).err = ""
                           THEN @
                           ELSE _save_config(@, config, writable)]
    /\ UNCHANGED <<disk, conn, db, writers, failed>>

\* self.config[key] = value
SetItem(config, key, value) ==
    JsonObject([k \in DOMAIN config.members \cup {key} |->
                   IF k = key THEN value ELSE config.members[k]])

\* self.config['api_keys'][provider] = api_key
SetApiKey(config, provider, api_key) ==
    SetItem(config, "api_keys",
            { p \in (IF "api_keys" \in DOMAIN config.members
                     THEN config.members.api_keys ELSE {}) : p[1] # provider }
            \cup { <<provider, api_key>> })

\* Menu choice 7, configure_llm.  The provider, the key, the model and the
\* default approach are asked for in turn; an empty answer keeps the
\* setting.  The prompts of the provider and of the approach read the
\* current setting from self.config, outside any try; the prompt of the
\* model reads it inside one.
configure_llm(provider_choice, api_key, model_choice, approach_choice, writable) ==
    /\ app.pc = "menu"
    /\ ret' = Ret("configure_llm", <<>>,
                  IF app.config.type # "object" THEN "TypeError"
                  ELSE IF {"llm_provider", "default_therapy_approach"}
                             \subseteq DOMAIN app.config.members
                       THEN "" ELSE "KeyError",
                  <<>>)
    /\ \/ /\ app.config.type # "object"
          /\ app' = Raised("TypeError")
       \/ /\ app.config.type = "object"
          /\ "llm_provider" \notin DOMAIN app.config.members
          /\ app' = Raised("KeyError")
       \/ /\ app.config.type = "object"
          /\ "llm_provider" \in DOMAIN app.config.members
          /\ \E c1 \in { IF provider_choice = "" THEN app.config
                         ELSE SetItem(app.config, "llm_provider",
                                      provider_choice) } :
             \E c2 \in { IF c1.members.llm_provider # "Ollama" /\ api_key # ""
                         THEN SetApiKey(c1, c1.members.llm_provider, api_key)
                         ELSE c1 } :
             \E c3 \in { IF "llm_model" \in DOMAIN c2.members
                            /\ model_choice # ""
                         THEN SetItem(c2, "llm_model", model_choice)
                         ELSE c2 } :
                IF "default_therapy_approach" \notin DOMAIN c3.members
                THEN app' = [Raised("KeyError") EXCEPT !.config = c3]
                ELSE \E c4 \in { IF approach_choice = "" THEN c3
                                 ELSE SetItem(c3, "default_therapy_approach",
                                              approach_choice) } :
                        app' = [app EXCEPT
                                  !.cmd = "configure_llm",
                                  !.config = c4,
                                  !.config_file =
                                      _save_config(@, c4, writable)]
    /\ UNCHANGED <<disk, conn, db, writers, failed>>

NextConfig ==
    \/ \E writable \in BOOLEAN : DrClaude_init(writable)
    \/ \E password \in StorePasswords : unlock_vault(password)
    \/ unlock_given_up
    \/ \E provider_choice \in Providers \cup {""}, api_key \in ApiKeys,
          model_choice \in ModelChoices, approach_choice \in ApproachChoices,
          writable \in BOOLEAN :
          configure_llm(provider_choice, api_key, model_choice,
                        approach_choice, writable)
    \/ menu_exit
    \/ menu_break
    \/ \E exc \in {"KeyboardInterrupt", "EOFError"} : prompt_raises(exc)
    \/ run_except

SpecConfig == InitConfig /\ [][NextConfig]_vars

-----------------------------------------------------------------------------
(* Condensation over the calendar: a process that starts on a file whose    *)
(* journal entries lie at the edges of a month, and condenses months.       *)

\* The months condensed: those of a leap year, and the February and the
\* December of the year before it.
AllMonths == { <<m, 2024>> : m \in 1..12 } \cup { <<2, 2023>>, <<12, 2023>> }

\* The first and the last instant of a calendar month.
FirstInstant(month, year) == <<year, month, 1, 0, 0, 0, 0>>
LastInstant(month, year) ==
    <<year, month, DaysInMonth(year, month), 23, 59, 59, 999999>>

\* The instants at the two edges of a month: the last of the month before,
\* its first, its last, and the first of the month after.
EdgeStamps(month, year) ==
    { MinusMicrosecond(FirstInstant(month, year)),
      FirstInstant(month, year),
      LastInstant(month, year),
      IF month = 12 THEN FirstInstant(1, year + 1)
      ELSE FirstInstant(month + 1, year) }

\* The sequences of up to n different elements of a set.
RECURSIVE Arrangements(_, _)
Arrangements(S, n) ==
    IF n = 0 \/ S = {} THEN { <<>> }
    ELSE { <<>> } \cup UNION { { <<x>> \o a : a \in Arrangements(S \ {x}, n - 1) } :
                               x \in S }

\* The file after add_journal_entry(<<"a">>, dates[i]) for each i in turn,
\* under the password "p".
RECURSIVE JournalOf(_)
JournalOf(dates) ==
    IF dates = <<>> THEN EmptyContent
    ELSE InsertJournal(JournalOf(SubSeq(dates, 1, Len(dates) - 1)),
                       dates[Len(dates)],
                       encrypt(_derive_key(<<"p">>), "iv1", <<"a">>), 0)

InitMonths ==
    /\ app = AppInit
    /\ \E my \in AllMonths :
       \E dates \in Arrangements(EdgeStamps(my[1], my[2]), MaxInserts - 1) :
          /\ disk = JournalOf(dates)
          /\ conn = JournalOf(dates)
          /\ writers = IF dates = <<>> THEN {} ELSE { <<"p">> }
    /\ db = [state |-> "none", key |-> <<>>, password |-> <<>>]
    /\ ret = Ret("", <<>>, "", <<>>)
    /\ failed = NoFailure

NextMonths ==
    \/ \E password \in StorePasswords : Open(password) /\ UNCHANGED app
    \/ \E note \in NoteTexts, iv \in StoreIVs :
          add_therapist_note(note, None, iv) /\ UNCHANGED app
    \/ \E my \in AllMonths, iv \in StoreIVs :
          condense_journal_entries(my[1], my[2], iv, FALSE) /\ UNCHANGED app

SpecMonths == InitMonths /\ [][NextMonths]_vars

-----------------------------------------------------------------------------
(* Listings with bounds.  The date columns are TEXT and 'date >= ?' and      *)
(* 'date <= ?' compare the isoformat texts byte by byte.                     *)

\* The w decimal digits of n, as character codes.
DigitCodes(n, w) == [i \in 1..w |-> 48 + ((n \div (10 ^ (w - i))) % 10)]

\* The characters of datetime.isoformat(), as codes: "-" 45, "." 46,
\* ":" 58, "T" 84.
IsoCodes(dt) ==
    DigitCodes(dt[1], 4) \o <<45>> \o DigitCodes(dt[2], 2) \o <<45>>
    \o DigitCodes(dt[3], 2) \o <<84>> \o DigitCodes(dt[4], 2) \o <<58>>
    \o DigitCodes(dt[5], 2) \o <<58>> \o DigitCodes(dt[6], 2)
    \o (IF dt[7] = 0 THEN <<>> ELSE <<46>> \o DigitCodes(dt[7], 6))

\* The comparison of two texts under the BINARY collation: a <= b.
TextLE(a, b) ==
    \/ /\ Len(a) <= Len(b)
       /\ \A i \in 1..Len(a) : a[i] = b[i]
    \/ \E i \in 1..Len(a) :
          /\ i <= Len(b)
          /\ a[i] < b[i]
          /\ \A j \in 1..(i - 1) : a[j] = b[j]

\* The bounds that the callers of the listings pass.
RangeBounds ==
    { <<None, None>>,
      <<<<2023, 5, 1, 0, 0, 0, 0>>, None>>,
      <<None, <<2023, 5, 1, 0, 0, 0, 0>>>>,
      <<<<2023, 5, 1, 0, 0, 0, 0>>, <<2023, 5, 1, 0, 0, 0, 0>>>>,
      <<<<2023, 5, 31, 23, 59, 59, 999999>>,
        <<2023, 4, 30, 23, 59, 59, 999999>>>> }

NextRanges ==
    \/ \E password \in StorePasswords : Open(password) /\ UNCHANGED app
    \/ \E date \in Stamps, iv \in StoreIVs :
          add_journal_entry(<<"a">>, date, iv) /\ UNCHANGED app
    \/ \E session_data \in SessionRecords, date \in Stamps \ Clock,
          iv \in StoreIVs :
          add_therapy_session("CBT", session_data, date, iv) /\ UNCHANGED app
    \/ \E note \in NoteTexts, date \in Stamps \ Clock, iv \in StoreIVs :
          add_therapist_note(note, date, iv) /\ UNCHANGED app
    \/ \E range \in RangeBounds : get_journal_entries(range[1], range[2])
          /\ UNCHANGED app
    \/ \E range \in RangeBounds : get_therapy_sessions(range[1], range[2])
          /\ UNCHANGED app
    \/ \E range \in RangeBounds : get_therapist_notes(range[1], range[2])
          /\ UNCHANGED app

SpecRanges == Init /\ [][NextRanges]_vars

-----------------------------------------------------------------------------
(* Menu choice 8, condense_old_entries: the walk back over the months.      *)

\* for _ in range(12)
MonthsBack == 12

\* What datetime.now() gives when choice 8 is taken.
Todays ==
    { <<2024, 1, 1, 0, 0, 0, 0>>, <<2024, 1, 31, 9, 30, 0, 0>>,
      <<2024, 2, 29, 23, 59, 59, 999999>>, <<2024, 3, 31, 12, 0, 0, 0>>,
      <<2023, 12, 31, 23, 59, 59, 999999>>, <<2024, 7, 15, 8, 0, 0, 5>> }

\* A step back that lowers the month number and stays in the year.
PreviousMonth_SameYear(dt) == [dt EXCEPT ![2] = @ - 1, ![3] = 1]

\* (dt.replace(day=1) - timedelta(days=1)).replace(day=1)
PreviousMonth(dt) == [PrevDay([dt EXCEPT ![3] = 1]) EXCEPT ![3] = 1]

\* Up to the loop: today, two_months_ago and current_month are computed.
condense_old_entries ==
    /\ app.pc = "menu"
    /\ \E today \in Todays :
          /\ ret' = Ret("condense_old_entries", <<today>>, "", <<>>)
          /\ app' = [app EXCEPT
                       !.pc = "condensing", !.cmd = "condense_old_entries",
                       !.today = today,
                       !.current_month =
                           [PrevDay([today EXCEPT ![3] = 1]) EXCEPT ![3] = 1],
                       !.months_condensed = 0]
    /\ UNCHANGED <<disk, conn, db, writers, failed>>

\* One pass of the loop: current_month goes back by a month and that month
\* is condensed.
condense_old_entries_pass(iv) ==
    /\ app.pc = "condensing"
    /\ app.months_condensed < MonthsBack
    /\ \E current_month \in { PreviousMonth(app.current_month) } :
          /\ condense_journal_entries(current_month[2], current_month[1], iv,
                                      FALSE)
          /\ app' = IF ret'.err # "" THEN Raised(ret'.err)
                    ELSE [app EXCEPT !.current_month = current_month,
                                     !.months_condensed = @ + 1]

\* After the loop: the count is printed and the menu is shown again.
condense_old_entries_done ==
    /\ app.pc = "condensing"
    /\ app.months_condensed = MonthsBack
    /\ ret' = Ret("condense_old_entries", <<app.today>>, "",
                  app.months_condensed)
    /\ app' = [app EXCEPT !.pc = "menu"]
    /\ UNCHANGED <<disk, conn, db, writers, failed>>

NextCondenser ==
    \/ \E password \in StorePasswords : unlock_vault(password)
    \/ \E entry \in Texts, iv \in StoreIVs : menu_add_journal_entry(entry, iv)
    \/ condense_old_entries
    \/ \E iv \in StoreIVs : condense_old_entries_pass(iv)
    \/ condense_old_entries_done
    \/ menu_exit
    \/ menu_break

SpecCondenser == Init /\ [][NextCondenser]_vars

-----------------------------------------------------------------------------
(* The journal without failures: entries are added and months condensed,    *)
(* through handles that are opened and closed.                              *)

NextJournal ==
    \/ \E password \in StorePasswords : Open(password) /\ UNCHANGED app
    \/ Close /\ UNCHANGED app
    \/ \E entry \in Texts, date \in Stamps \cup {None}, iv \in StoreIVs :
          add_journal_entry(entry, date, iv) /\ UNCHANGED app
    \/ \E range \in Ranges : get_journal_entries(range[1], range[2])
          /\ UNCHANGED app
    \/ \E my \in Months, iv \in StoreIVs :
          condense_journal_entries(my[1], my[2], iv, FALSE) /\ UNCHANGED app

SpecJournal == Init /\ [][NextJournal]_vars

-----------------------------------------------------------------------------
(* Vocabulary of the properties.                                            *)

\* A timestamp of the calendar month.
InCalendarMonth(date, month, year) == date[1] = year /\ date[2] = month

\* Whether the text sub occurs in the text.
Contains(text, sub) ==
    \E i \in 0..(Len(text) - Len(sub)) : SubSeq(text, i + 1, i + Len(sub)) = sub

\* The ids of the journal rows of a content.
JournalIds(c) == { r.id : r \in c.journal_entries }

\* The journal rows of a content as a reader with the key sees them.
PlainRows(key, c) ==
    { [id |-> r.id, date |-> r.date, entry |-> decrypt(key, r.entry).val,
       is_condensed |-> r.is_condensed] : r \in c.journal_entries }

\* The encrypted payloads of a content, over its four tables.
Payloads(c) ==
    { r.profile_data : r \in c.user_profile }
    \cup { r.entry : r \in c.journal_entries }
    \cup { r.session_data : r \in c.therapy_sessions }
    \cup { r.notes : r \in c.therapist_notes }

\* The payloads that a call of the operation decrypts.
RecordsRead(op, args, c) ==
    CASE op = "get_user_profile" -> { r.profile_data : r \in c.user_profile }
      [] op = "get_journal_entries" -> { r.entry : r \in c.journal_entries }
      [] op = "get_therapy_sessions" ->
             { r.session_data : r \in c.therapy_sessions }
      [] op = "get_therapist_notes" -> { r.notes : r \in c.therapist_notes }
      [] op = "condense_journal_entries" ->
             { r.entry : r \in { x \in c.journal_entries :
                                 InCalendarMonth(x.date, args[1], args[2]) } }
      [] OTHER -> {}

\* The step is a call of condense_journal_entries that returned normally.
CondenseReturned == ret'.op = "condense_journal_entries" /\ ret'.err = ""

-----------------------------------------------------------------------------
(* Condensation.                                                            *)

\* C1: after a condensation that failed partway, the store holds either all
\* of the original entries and no summary, or the summary and none of the
\* originals, whatever is committed next.
C1_CondensationAllOrNothing ==
    failed.raised =>
        \/ failed.originals \subseteq JournalIds(disk)
           /\ failed.summary \notin JournalIds(disk)
        \/ failed.originals \cap JournalIds(disk) = {}
           /\ failed.summary \in JournalIds(disk)

\* C2: when the journal is not empty and all its entries are dated within
\* the month, a condensation of the month that returns leaves exactly one
\* entry, with is_condensed set, whose text contains the text of every
\* entry there was.
C2_CondenseLeavesOneSummary ==
    [][ ( /\ CondenseReturned
          /\ conn.journal_entries # {}
          /\ \A r \in conn.journal_entries :
                InCalendarMonth(r.date, ret'.args[1], ret'.args[2]) )
        => /\ Cardinality(conn'.journal_entries) = 1
           /\ \A s \in PlainRows(db.key, conn') :
                 /\ s.is_condensed = 1
                 /\ \A r \in PlainRows(db.key, conn) :
                       Contains(s.entry, r.entry) ]_vars

\* A condensation has folded two entries or more into the one that is left.
C2_FoldedSeveral ==
    /\ ret.op = "condense_journal_entries"
    /\ ret.err = ""
    /\ Len(ret.val) >= 2
    /\ Cardinality(conn.journal_entries) = 1
    /\ \A r \in conn.journal_entries : r.is_condensed = 1

\* C3: a condensation of a month whose entries are all condensed already
\* leaves the journal rows (ids, timestamps, texts, flags) as they were.
C3_CondenseIdempotent ==
    [][ ( /\ CondenseReturned
          /\ RecordsRead("condense_journal_entries", ret'.args, conn) # {}
          /\ \A r \in conn.journal_entries :
                InCalendarMonth(r.date, ret'.args[1], ret'.args[2])
                => r.is_condensed = 1 )
        => PlainRows(db.key, conn') = PlainRows(db.key, conn) ]_vars

\* C4: a condensation of a month keeps the condensed entry that the month
\* has already: it is not deleted and not folded into a new one.
C4_SummaryNotRefolded ==
    [][ CondenseReturned
        => \A r \in conn.journal_entries :
              ( /\ r.is_condensed = 1
                /\ r.date = TargetMonth(ret'.args[1], ret'.args[2]) )
              => r \in conn'.journal_entries ]_vars

\* C5: a condensation of a month in which no entry is dated changes nothing
\* in any of the four collections.
C5_CondenseEmptyMonthNoChange ==
    [][ ( /\ ret'.op = "condense_journal_entries"
          /\ \A r \in conn.journal_entries :
                ~InCalendarMonth(r.date, ret'.args[1], ret'.args[2]) )
        => conn' = conn /\ disk' = disk ]_vars

\* A condensation found nothing in its month while the journal, dated in
\* another month, and another collection were not empty.
C5_NothingInMonth ==
    /\ ret.op = "condense_journal_entries"
    /\ ret.err = ""
    /\ ret.val = <<>>
    /\ conn.journal_entries # {}
    /\ \A r \in conn.journal_entries :
          ~InCalendarMonth(r.date, ret.args[1], ret.args[2])
    /\ conn.user_profile \cup conn.therapy_sessions \cup conn.therapist_notes
       # {}

-----------------------------------------------------------------------------
(* Encryption at rest.                                                      *)

\* C6: every payload that is stored (profile, journal text, session record,
\* note), committed or pending, is a ciphertext token and never the text.
C6_PayloadsAreTokens ==
    \A c \in {disk, conn} : \A t \in Payloads(c) : IsToken(t)

\* The file holds a condensed entry and a payload of another collection.
C6_StoredCondensedAndOther ==
    /\ \E r \in disk.journal_entries : r.is_condensed = 1
    /\ disk.user_profile \cup disk.therapy_sessions \cup disk.therapist_notes
       # {}

-----------------------------------------------------------------------------
(* Keys and passwords.                                                      *)

\* The last call decrypted a token that a handle opened with another
\* password produced.
ForeignDecrypt == ret.op = "decrypt" /\ ret.args[1] # db.password

\* C7 as stated: decrypt of a token produced under the key of a password,
\* by a handle opened with any different password, fails.
C7_DifferentPasswordFails ==
    ForeignDecrypt => ret.err = "InvalidToken"

\* C7: decrypt of a token produced under the key of a password, by a handle
\* opened with a password that derives a different key, fails with
\* InvalidToken and returns no text.
C7_DifferentKeyFails ==
    ( ret.op = "decrypt" /\ _derive_key(ret.args[1]) # db.key )
    => ret.err = "InvalidToken" /\ ret.val = <<>>

\* A decrypt under a different key has failed, on a token whose text is not
\* empty.
C7_ForeignKeyRejected ==
    /\ ForeignDecrypt
    /\ _derive_key(ret.args[1]) # db.key
    /\ ret.args[3] # <<>>
    /\ ret.err = "InvalidToken"

ReadUnderOtherPassword ==
    /\ IsOpen
    /\ writers # {}
    /\ db.password \notin writers
    /\ RecordsRead(ret.op, ret.args, conn) # {}

\* C9 as stated: opening never fails, and with a wrong password the first
\* read of an existing record fails on decryption.
C9_WrongPasswordFailsOnRead ==
    /\ ret.op = "__init__" => ret.err = ""
    /\ ReadUnderOtherPassword => ret.err = "InvalidToken"

\* C9: opening never fails, whatever the password and the file; a password
\* that derives another key than the one that wrote the records fails with
\* InvalidToken in the call that reads an existing record, and no call on
\* the open handle that reads no record fails.
C9_WrongKeyFailsOnRead ==
    /\ ret.op = "__init__" => ret.err = ""
    /\ ( /\ ReadUnderOtherPassword
         /\ \A w \in writers : _derive_key(w) # db.key )
       => ret.err = "InvalidToken"
    /\ (IsOpen /\ ret.err # "") => /\ ret.err = "InvalidToken"
                                   /\ RecordsRead(ret.op, ret.args, conn) # {}

\* A handle opened without error under a key that wrote nothing has failed
\* to list the journal.
C9_WrongKeyListingFailed ==
    /\ ReadUnderOtherPassword
    /\ \A w \in writers : _derive_key(w) # db.key
    /\ ret.op = "get_journal_entries"
    /\ ret.err = "InvalidToken"

\* C10 as stated: all the tokens of one file are under one single key.
C10_OneKeyPerFile ==
    \E k \in Keys : \A t \in Payloads(disk) : FernetValid(k, t)

\* C10: every token that a handle writes to the file is under the key that
\* the handle derived when it was opened, and that key does not change
\* while the handle is open.
C10_OneKeyPerHandle ==
    [][ /\ \A t \in Payloads(disk') \ Payloads(disk) : FernetValid(db.key, t)
        /\ (IsOpen /\ db'.state = "open") => db'.key = db.key ]_vars

\* A handle has written to a file that holds a token under another key.
C10_SecondKeyWrote ==
    /\ IsOpen
    /\ ret.op \in {"add_journal_entry", "add_therapist_note"}
    /\ \E t \in Payloads(disk) : FernetValid(db.key, t)
    /\ \E t \in Payloads(disk) : ~FernetValid(db.key, t)

-----------------------------------------------------------------------------
(* Reads under a key that does not fit.                                     *)

ListingOps == {"get_journal_entries", "get_therapy_sessions",
               "get_therapist_notes"}

\* C11: a listing call that selects a row which does not decrypt under the
\* key of the handle raises InvalidToken, returns no list, not even of the
\* rows that do decrypt, and leaves the stored content as it was.
C11_ListingFailsFast ==
    [][ ( /\ IsOpen
          /\ ret'.op \in ListingOps
          /\ \E t \in RecordsRead(ret'.op, ret'.args, conn) :
                ~FernetValid(db.key, t) )
        => /\ ret'.err = "InvalidToken"
           /\ ret'.val = <<>>
           /\ conn' = conn
           /\ disk' = disk ]_vars

\* A listing of the journal has failed on a table of which one row decrypts
\* under the key of the handle and another does not.
C11_MixedListingFailed ==
    /\ IsOpen
    /\ ret.op = "get_journal_entries"
    /\ ret.err = "InvalidToken"
    /\ \E r \in conn.journal_entries : FernetValid(db.key, r.entry)
    /\ \E r \in conn.journal_entries : ~FernetValid(db.key, r.entry)

\* C12: get_user_profile returns the empty map when there is no profile row,
\* under any key; when there is a row that was written under another key
\* than the key of the handle, it raises InvalidToken and returns no map.
C12_ProfileReadUnderKey ==
    ( IsOpen /\ ret.op = "get_user_profile" )
    => /\ conn.user_profile = {} => ret.err = "" /\ ret.val = <<>>
       /\ ( \E r \in conn.user_profile : ~FernetValid(db.key, r.profile_data) )
          => ret.err = "InvalidToken" /\ ret.val = <<>>

\* A profile written under one key has been asked for under another.
C12_ProfileUnderOtherKey ==
    /\ IsOpen
    /\ ret.op = "get_user_profile"
    /\ ret.err = "InvalidToken"
    /\ \E r \in conn.user_profile :
          \E w \in writers : FernetValid(_derive_key(w), r.profile_data)

-----------------------------------------------------------------------------
(* The profile.                                                             *)

\* The map that a reader with the key finds in a profile row.
ProfileOf(key, r) == ProfileLoads(decrypt(key, r.profile_data).val)

\* C13: the profile collection never holds more than one row; a save leaves
\* exactly one row, which holds the map that was passed, in the file as on
\* the connection; the row changes in no other call; and get_user_profile
\* returns the map of the row.  So get_user_profile returns the map of the
\* most recent save.
C13_ProfileUpsert ==
    [][ /\ Cardinality(conn'.user_profile) <= 1
        /\ ( ret'.op = "save_user_profile" /\ ret'.err = "" )
           => /\ Cardinality(conn'.user_profile) = 1
              /\ disk'.user_profile = conn'.user_profile
              /\ \A r \in conn'.user_profile :
                    r.id = 1 /\ ProfileOf(db.key, r) = ret'.args[1]
        /\ ~( ret'.op = "save_user_profile" /\ ret'.err = "" )
           => conn'.user_profile = conn.user_profile
        /\ ( ret'.op = "get_user_profile" /\ ret'.err = "" )
           => \A r \in conn.user_profile : ret'.val = ProfileOf(db.key, r) ]_vars

\* get_user_profile has returned the map with two fields while the file
\* holds one row and journal entries beside it.
C13_ProfileRead ==
    /\ ret.op = "get_user_profile"
    /\ ret.err = ""
    /\ ret.val = << <<"name", "Ann">>, <<"age", "30">> >>
    /\ Cardinality(disk.user_profile) = 1
    /\ disk.journal_entries # {}

-----------------------------------------------------------------------------
(* The journal listing.                                                     *)

\* C14: get_journal_entries() without a range returns every journal entry
\* of the store exactly once (its id, its date and its text), newest first,
\* in whatever order the entries were inserted.
C14_ListingCompleteNewestFirst ==
    ( /\ ret.op = "get_journal_entries"
      /\ ret.err = ""
      /\ ret.args = <<None, None>> )
    => /\ Len(ret.val) = Cardinality(conn.journal_entries)
       /\ { [id |-> ret.val[i].id, date |-> ret.val[i].date,
             entry |-> ret.val[i].entry] : i \in 1..Len(ret.val) }
          = { [id |-> r.id, date |-> r.date, entry |-> r.entry] :
              r \in PlainRows(db.key, conn) }
       /\ \A i, j \in 1..Len(ret.val) :
             i < j => LexLE(ret.val[j].date, ret.val[i].date)

\* A listing of three entries of which the oldest was inserted last and the
\* newest neither first nor last.
C14_ListedOutOfInsertionOrder ==
    /\ ret.op = "get_journal_entries"
    /\ ret.err = ""
    /\ Len(ret.val) = 3
    /\ ret.val[1].id = 2
    /\ ret.val[2].id = 1
    /\ ret.val[3].id = 3
    /\ ret.val[1].date # ret.val[2].date
    /\ ret.val[2].date # ret.val[3].date

-----------------------------------------------------------------------------
(* The closed handle.                                                       *)

StoreOps == {"save_user_profile", "get_user_profile", "add_journal_entry",
             "get_journal_entries", "add_therapy_session",
             "get_therapy_sessions", "add_therapist_note",
             "get_therapist_notes", "condense_journal_entries"}

\* C15: every store operation that is called on a handle after its close()
\* raises the error of the closed database (sqlite3.ProgrammingError),
\* returns no data and changes nothing of the file or of the handle.
C15_ClosedHandleRejects ==
    [][ ( db.state = "closed" /\ ret'.op \in StoreOps )
        => /\ ret'.err = "ProgrammingError"
           /\ ret'.val = <<>>
           /\ disk' = disk
           /\ conn' = conn
           /\ db' = db ]_vars

\* An add_journal_entry on a closed handle has been rejected while the file
\* holds entries.
C15_AddAfterCloseRejected ==
    /\ db.state = "closed"
    /\ ret.op = "add_journal_entry"
    /\ ret.err = "ProgrammingError"
    /\ disk.journal_entries # {}

-----------------------------------------------------------------------------
(* Claim C16.  When run() has returned and the vault was unlocked in the    *)
(* execution, the store handle is closed and was closed exactly once, on    *)
(* every way out: menu choice 9, KeyboardInterrupt, or another exception    *)
(* raised under the menu.                                                   *)
C16_ClosedOnceAtReturn ==
    /\ app.closes <= 1
    /\ (app.pc = "returned" /\ app.unlocked)
           => (app.closes = 1 /\ db.state = "closed")

\* run() returned after an exception in the middle of a therapy session.
C16_ReturnedAfterException ==
    /\ app.pc = "returned"
    /\ app.unlocked
    /\ app.cmd = "KeyboardInterrupt"
    /\ app.session_transcript # <<>>

-----------------------------------------------------------------------------
(* Claim C17.  In each kind of record the ids are given by the store, are    *)
(* unique and grow with the insertions: a row that a step adds has an id     *)
(* above every id the kind has ever held (the ids of the entries that a      *)
(* condensation deleted included) and above the id of every row that         *)
(* existed before it, in the file and on the open handle.                    *)
IdKinds == { "journal_entries", "therapy_sessions", "therapist_notes" }

IdsGrow(c, d) ==
    \A k \in IdKinds :
       /\ \A r \in d[k] \ c[k] :
             /\ r.id > c.sqlite_sequence[k]
             /\ \A q \in c[k] : r.id > q.id
       /\ d.sqlite_sequence[k] >= c.sqlite_sequence[k]
       /\ \A r \in d[k] : r.id <= d.sqlite_sequence[k]
       /\ \A r, q \in d[k] : r.id = q.id => r = q

C17_IdsUniqueIncreasing ==
    [][ /\ IdsGrow(disk, disk')
        /\ (IsOpen /\ db' = db) => IdsGrow(conn, conn') ]_vars

\* An entry was added after a condensation had deleted the entry of id 1:
\* the file holds the summary and the later entry, and no entry of id 1.
C17_AddedAfterCondensation ==
    /\ \A r \in disk.journal_entries : r.id # 1
    /\ \E q, r \in disk.journal_entries :
          /\ q.is_condensed = 1
          /\ r.is_condensed = 0
          /\ r.id > q.id

-----------------------------------------------------------------------------
(* Claim C18.  No step removes or changes a therapy session or a therapist   *)
(* note, in the file or on the handle, and no step removes the profile row.  *)
(* A journal entry leaves the open handle only in a step of                  *)
(* condense_journal_entries, and leaves the file only in such a step or in   *)
(* the commit of what such a step had deleted on the handle.                 *)
Kept(c, d) ==
    /\ c.therapy_sessions \subseteq d.therapy_sessions
    /\ c.therapist_notes \subseteq d.therapist_notes
    /\ \A r \in c.user_profile : \E q \in d.user_profile : q.id = r.id

C18_OnlyCondenseRemoves ==
    [][ /\ Kept(disk, disk')
        /\ Kept(conn, conn')
        /\ (IsOpen /\ db' = db
            /\ ~(conn.journal_entries \subseteq conn'.journal_entries))
               => ret'.op = "condense_journal_entries"
        /\ \A r \in disk.journal_entries \ disk'.journal_entries :
              \/ ret'.op = "condense_journal_entries"
              \/ r \notin conn.journal_entries ]_vars

\* A condensation has removed the entry of id 1 from a file that holds a
\* therapist note.
C18_CondensedBesideNote ==
    /\ ret.op = "condense_journal_entries"
    /\ ret.err = ""
    /\ disk.therapist_notes # {}
    /\ disk.journal_entries # {}
    /\ \A r \in disk.journal_entries : r.id # 1

-----------------------------------------------------------------------------
(* Claim C19.  Every step that ends a therapy session (end, exit or quit)    *)
(* adds exactly one therapy session to the file, whatever the number of      *)
(* messages and of saves before it.                                          *)
C19_CompletedSessionPersisted ==
    [][ (app.pc = "session" /\ app'.pc # "session" /\ app'.cmd = "end")
           => Cardinality(disk'.therapy_sessions)
                  = Cardinality(disk.therapy_sessions) + 1 ]_vars

-----------------------------------------------------------------------------
(* Claim C20.  A failure of the provider is not raised out of                *)
(* generate_response or generate_therapist_notes: the session stays at its   *)
(* prompt.  The value of generate_response has the field 'error' exactly     *)
(* when the call of the provider failed, and the step of the session for a   *)
(* message whose reply has it writes nothing to the store, counts no reply   *)
(* and goes on with the session.                                             *)
C20_ProviderFailureInValue ==
    [][ /\ (app.pc = "session" /\ app'.cmd \in {"message", "notes", "save"})
               => (app'.pc = "session" /\ ret'.err = "")
        /\ (app.pc = "session" /\ app'.cmd = "message")
               => /\ ret'.op = "generate_response"
                  /\ ("error" \in DOMAIN ret'.val) <=> ret'.args[1].failed
                  /\ ret'.args[1].failed
                        => /\ disk' = disk
                           /\ conn' = conn
                           /\ app'.message_count = app.message_count
                           /\ app'.current_notes = app.current_notes ]_vars

\* After a reply that was counted, the provider failed for the next message:
\* the line of the user is in the transcript without a reply.
C20_FailedAfterReply ==
    /\ app.pc = "session"
    /\ ret.op = "generate_response"
    /\ "error" \in DOMAIN ret.val
    /\ app.message_count = 1
    /\ Len(app.session_transcript) = 3

-----------------------------------------------------------------------------
(* Claim C21.  _load_config raises nothing, and when config.json cannot be   *)
(* opened or is no JSON text it returns the defaults: the configuration      *)
(* returned then has the keys llm_provider, llm_model,                       *)
(* default_therapy_approach and api_keys.                                    *)
C21_ConfigFallsBackToDefaults ==
    ret.op = "_load_config"
       => /\ ret.err = ""
          /\ app.config = ret.val
          /\ ret.args[1].kind \in {"unreadable", "text"}
                => /\ ret.val = DefaultConfig
                   /\ DefaultKeys \subseteq DOMAIN ret.val.members

\* The constructor found a config.json that is no JSON text and could not
\* write the defaults over it.
C21_LoadedFromBrokenFile ==
    /\ ret.op = "_load_config"
    /\ ret.args[1].kind = "text"
    /\ app.config_file.kind = "text"
    /\ app.pc = "locked"

-----------------------------------------------------------------------------
(* Claim C22.  The derivation of the key is deterministic: the key of every  *)
(* open handle is the one key that its password derives, so on a file        *)
(* written only under password P every payload verifies under the key of     *)
(* any handle opened with P, and every read through such a handle succeeds.  *)
ReadOps == ListingOps \cup {"get_user_profile"}

C22_DerivationDeterministic ==
    IsOpen
       => /\ db.key = _derive_key(db.password)
          /\ writers \subseteq {db.password}
                => /\ \A t \in Payloads(conn) \cup Payloads(disk) :
                         FernetValid(db.key, t)
                   /\ ret.op \in ReadOps => ret.err = ""

\* A handle has just been opened with "q" on a file whose rows were all
\* written by earlier handles opened with "q".
C22_ReopenedUnderSamePassword ==
    /\ IsOpen
    /\ ret.op = "__init__"
    /\ db.password = <<"q">>
    /\ writers = { <<"q">> }
    /\ disk.journal_entries # {}
    /\ disk.therapist_notes # {}

-----------------------------------------------------------------------------
(* Claim C23.  Under one key, a successful add_therapy_session(approach,     *)
(* data) makes the listing of the sessions one longer, and the listing then  *)
(* holds a new session whose approach is the string value of the             *)
(* enumeration member and whose session_data equals data; a successful       *)
(* add_therapist_note(text) makes the listing of the notes one longer, and   *)
(* the listing then holds a new note whose text equals text.                 *)
C23_SessionNoteRoundTrip ==
    [][ /\ (ret'.op = "add_therapy_session" /\ ret'.err = "")
              => \A rows \in OrderByDateDesc(conn'.therapy_sessions) :
                    LET sessions == SessionDicts(db.key, rows)
                    IN  /\ sessions.err = ""
                        /\ Len(sessions.val)
                               = Cardinality(conn.therapy_sessions) + 1
                        /\ \E i \in 1..Len(sessions.val) :
                              /\ rows[i] \notin conn.therapy_sessions
                              /\ sessions.val[i].approach
                                     = ApproachValue(ret'.args[1])
                              /\ sessions.val[i].session_data = ret'.args[2]
        /\ (ret'.op = "add_therapist_note" /\ ret'.err = "")
              => \A rows \in OrderByDateDesc(conn'.therapist_notes) :
                    LET notes == NoteDicts(db.key, rows)
                    IN  /\ notes.err = ""
                        /\ Len(notes.val)
                               = Cardinality(conn.therapist_notes) + 1
                        /\ \E i \in 1..Len(notes.val) :
                              /\ rows[i] \notin conn.therapist_notes
                              /\ notes.val[i].note = ret'.args[1] ]_vars

\* A session has been added to a store that held a session and a note.
C23_SecondSessionAdded ==
    /\ ret.op = "add_therapy_session"
    /\ ret.err = ""
    /\ Cardinality(conn.therapy_sessions) = 2
    /\ conn.therapist_notes # {}

-----------------------------------------------------------------------------
(* Claim C24.  A condense_journal_entries(month, year) that returns folds    *)
(* exactly the journal entries whose timestamp lies from the first instant   *)
(* of the month to its last instant (last day, 23:59:59.999999), both        *)
(* included, for every month, February of a leap year and December           *)
(* included: those entries are removed and their texts are in the summary,   *)
(* every other journal entry is left as it was, and so is every profile,     *)
(* session and note row.                                                     *)
InMonthRange(date, month, year) ==
    /\ LexLE(FirstInstant(month, year), date)
    /\ LexLE(date, LastInstant(month, year))

C24_FoldsExactlyTheMonth ==
    [][ CondenseReturned
        => LET month == ret'.args[1]
               year == ret'.args[2]
               inside == { r \in conn.journal_entries :
                           InMonthRange(r.date, month, year) }
           IN  /\ { ret'.val[i].id : i \in 1..Len(ret'.val) }
                      = { r.id : r \in inside }
               /\ conn'.journal_entries \cap conn.journal_entries
                      = conn.journal_entries \ inside
               /\ inside # {}
                     => \E s \in PlainRows(db.key, conn') :
                           /\ s.id \notin JournalIds(conn)
                           /\ \A r \in PlainRows(db.key, conn) :
                                 InMonthRange(r.date, month, year)
                                    => Contains(s.entry, r.entry)
               /\ Cardinality(conn'.journal_entries \ conn.journal_entries)
                      = IF inside = {} THEN 0 ELSE 1
               /\ conn'.user_profile = conn.user_profile
               /\ conn'.therapy_sessions = conn.therapy_sessions
               /\ conn'.therapist_notes = conn.therapist_notes
               /\ disk' = conn' ]_vars

\* The condensation of February 2024 has folded the entry of the last
\* instant of February 29 and has left the entry of the first instant of
\* March beside the summary.
C24_LeapFebruaryFolded ==
    /\ ret.op = "condense_journal_entries"
    /\ ret.err = ""
    /\ ret.args = <<2, 2024>>
    /\ \E i \in 1..Len(ret.val) :
          ret.val[i].date = <<2024, 2, 29, 23, 59, 59, 999999>>
    /\ \E r \in conn.journal_entries :
          r.date = <<2024, 3, 1, 0, 0, 0, 0>> /\ r.is_condensed = 0

-----------------------------------------------------------------------------
(* Claim C25.  The entry that a condense_journal_entries(month, year)        *)
(* inserts is flagged condensed, is dated the first instant of the month,    *)
(* and its text is the header naming the month and the year, followed by     *)
(* the timestamp and the text of each folded entry, in the order in which    *)
(* get_journal_entries returned them, which is newest first.                 *)
RECURSIVE DatedTexts(_, _)
DatedTexts(entries, i) ==
    IF i > Len(entries) THEN <<>>
    ELSE <<"Date: ">> \o isoformat(entries[i].date) \o <<"\n">>
         \o entries[i].entry \o <<"\n\n">> \o DatedTexts(entries, i + 1)

C25_SummaryContent ==
    [][ (CondenseReturned /\ ret'.val # <<>>)
        => /\ \A i, j \in 1..Len(ret'.val) :
                 i < j => LexLE(ret'.val[j].date, ret'.val[i].date)
           /\ \A s \in PlainRows(db.key, conn') :
                 s.id \notin JournalIds(conn)
                    => /\ s.is_condensed = 1
                       /\ s.date = <<ret'.args[2], ret'.args[1], 1, 0, 0, 0, 0>>
                       /\ s.entry
                              = <<"Condensed journal entries for ",
                                  MonthName(ret'.args[1]), " ",
                                  ToString(ret'.args[2]), ":\n\n">>
                                \o DatedTexts(ret'.val, 1)
           /\ \E s \in conn'.journal_entries : s.id \notin JournalIds(conn) ]_vars

\* The condensation of December 2023 has folded two entries of different
\* instants into the summary dated December 1.
C25_DecemberSummary ==
    /\ ret.op = "condense_journal_entries"
    /\ ret.err = ""
    /\ ret.args = <<12, 2023>>
    /\ Len(ret.val) = 2
    /\ ret.val[1].date # ret.val[2].date
    /\ \E s \in conn.journal_entries :
          s.is_condensed = 1 /\ s.date = <<2023, 12, 1, 0, 0, 0, 0>>

-----------------------------------------------------------------------------
(* Claim C26.  Each of the three listings, called with the bounds (start,    *)
(* end) of which either may be absent, returns exactly the rows of its       *)
(* table whose timestamp t has start <= t when start is given and t <= end   *)
(* when end is given, both bounds included, each row once and the newest     *)
(* first; the order of the isoformat texts that the store compares is the    *)
(* order of the instants.                                                    *)
TableOf(op, c) ==
    CASE op = "get_journal_entries" -> c.journal_entries
      [] op = "get_therapy_sessions" -> c.therapy_sessions
      [] op = "get_therapist_notes" -> c.therapist_notes

C26_BoundsInclusiveNewestFirst ==
    [][ (ret'.op \in ListingOps /\ ret'.err = "")
        => LET start == ret'.args[1]
               end == ret'.args[2]
               rows == TableOf(ret'.op, conn)
               listed == ret'.val
           IN  /\ { listed[i].id : i \in 1..Len(listed) }
                      = { r.id : r \in { x \in rows :
                                         /\ start = None \/ LexLE(start, x.date)
                                         /\ end = None \/ LexLE(x.date, end) } }
               /\ \A i, j \in 1..Len(listed) :
                     i < j => /\ listed[i].id # listed[j].id
                              /\ LexLE(listed[j].date, listed[i].date)
               /\ \A i \in 1..Len(listed) :
                     \E r \in rows : r.id = listed[i].id /\ r.date = listed[i].date
               /\ \A a \in { r.date : r \in rows } \cup ({start, end} \ {None}),
                     b \in { r.date : r \in rows } :
                     /\ TextLE(IsoCodes(a), IsoCodes(b)) <=> LexLE(a, b)
                     /\ TextLE(IsoCodes(b), IsoCodes(a)) <=> LexLE(b, a) ]_vars

\* A listing of the journal bounded on both sides by the same instant has
\* returned the one entry of that instant out of three.
C26_BothBoundsOnOneInstant ==
    /\ ret.op = "get_journal_entries"
    /\ ret.err = ""
    /\ ret.args = << <<2023, 5, 1, 0, 0, 0, 0>>, <<2023, 5, 1, 0, 0, 0, 0>> >>
    /\ Len(ret.val) = 1
    /\ Cardinality({ r.date : r \in conn.journal_entries }) = 3

-----------------------------------------------------------------------------
(* Claim C27.  Whatever the current date, condense_old_entries calls the     *)
(* condensation for 12 calendar months, each the month before the one of     *)
(* the call before it, the first being the month before the previous         *)
(* month: the current month and the previous one are never condensed, and    *)
(* the walk crosses the turn of the year rightly in January and February.    *)
\* The months since year 0, for a year and a month of the calendar.
MonthIndex(year, month) == 12 * year + (month - 1)

-----------------------------------------------------------------------------
(* Claim C28.  Over add_journal_entry and condense_journal_entries calls     *)
(* that do not fail, no entry is lost and none is duplicated.  An add puts   *)
(* one row with the text in the store and touches no other row; a            *)
(* condensation removes exactly the rows it folded and puts one summary in   *)
(* their place, whose text contains the text of each of them (that of a      *)
(* summary folded earlier included).  So each row stands for the entries     *)
(* added that it carries, itself or the blocks of its summary text, and      *)
(* the entries and summaries carried by the rows of the store are as many    *)
(* as the rows ever inserted.                                                *)
Occurrences(text, fragment) ==
    Cardinality({ i \in DOMAIN text : text[i] = fragment })

\* The summaries ever made that a row carries: the headers in its text.
SummariesIn(row) ==
    IF row.is_condensed = 0 THEN 0
    ELSE Occurrences(row.entry, "Condensed journal entries for ")

\* The entries ever added that a row carries: itself, or the dated blocks of
\* its text that are not summaries folded into it.
EntriesIn(row) ==
    IF row.is_condensed = 0 THEN 1
    ELSE Occurrences(row.entry, "Date: ") - (SummariesIn(row) - 1)

\* The entries and the summaries that the rows carry, together.
RECURSIVE Total(_)
Total(rows) ==
    IF rows = {} THEN 0
    ELSE LET row == CHOOSE r \in rows : TRUE
         IN  EntriesIn(row) + SummariesIn(row) + Total(rows \ {row})

Conserved(key, c) ==
    Total(PlainRows(key, c)) = c.sqlite_sequence.journal_entries

C28_NoEntryLostOrDuplicated ==
    [][ /\ IsOpen' => (Conserved(db'.key, conn') /\ Conserved(db'.key, disk'))
        /\ (ret'.op = "add_journal_entry" /\ ret'.err = "")
              => /\ conn.journal_entries \subseteq conn'.journal_entries
                 /\ \E s \in PlainRows(db.key, conn') :
                       /\ PlainRows(db.key, conn') \ PlainRows(db.key, conn) = {s}
                       /\ s.entry = ret'.args[1]
                       /\ s.is_condensed = 0
        /\ (CondenseReturned /\ ret'.val # <<>>)
              => /\ conn.journal_entries \ conn'.journal_entries
                        = { r \in conn.journal_entries :
                            \E i \in 1..Len(ret'.val) : ret'.val[i].id = r.id }
                 /\ \E s \in PlainRows(db.key, conn') :
                       /\ PlainRows(db.key, conn') \ PlainRows(db.key, conn) = {s}
                       /\ \A r \in PlainRows(db.key, conn) :
                             r.id \notin JournalIds(conn')
                                => Contains(s.entry, r.entry)
        /\ (CondenseReturned /\ ret'.val = <<>>)
              => conn'.journal_entries = conn.journal_entries ]_vars

\* A summary has been folded into a later summary: the one row of the
\* journal carries an entry through two condensations.
C28_FoldedTwice ==
    /\ IsOpen
    /\ Cardinality(conn.journal_entries) = 1
    /\ \A r \in PlainRows(db.key, conn) :
          /\ SummariesIn(r) = 2
          /\ EntriesIn(r) = 1

-----------------------------------------------------------------------------
(* Claim C29.  At every prompt of the session the count of the replies       *)
(* since the last save of notes is at least 0 and below the threshold (10    *)
(* in the code).  It grows, by one, only in the step of a message whose      *)
(* reply has no error; the step in which it would reach the threshold        *)
(* saves interim notes and leaves it at 0.  The end of the session saves a   *)
(* final note exactly when the count is above 0.                             *)
C29_MessageCountBelowThreshold ==
    [][ /\ app'.pc = "session"
              => app'.message_count \in 0..(auto_save_threshold - 1)
        /\ (app.pc = "session" /\ app'.pc = "session"
            /\ app'.message_count # app.message_count)
              => \/ /\ app'.message_count = app.message_count + 1
                    /\ ret'.op = "generate_response"
                    /\ "error" \notin DOMAIN ret'.val
                    /\ disk' = disk
                 \/ /\ app'.message_count = 0
                    /\ Cardinality(disk'.therapist_notes)
                           = Cardinality(disk.therapist_notes) + 1
        /\ (app.pc = "session" /\ app'.cmd = "message"
            /\ "error" \notin DOMAIN ret'.val
            /\ app.message_count + 1 = auto_save_threshold)
              => /\ app'.message_count = 0
                 /\ Cardinality(disk'.therapist_notes)
                        = Cardinality(disk.therapist_notes) + 1
        /\ (app.pc = "session" /\ app'.pc # "session" /\ app'.cmd = "end")
              => Cardinality(disk'.therapist_notes)
                     = Cardinality(disk.therapist_notes)
                       + (IF app.message_count > 0 THEN 1 ELSE 0) ]_vars

\* The reply that brought the count to the threshold has saved interim
\* notes and the count is 0 again.
C29_AutoSavedAtThreshold ==
    /\ app.pc = "session"
    /\ app.cmd = "message"
    /\ app.message_count = 0
    /\ Len(app.session_transcript) = 2 * auto_save_threshold
    /\ Cardinality(disk.therapist_notes) = 1

-----------------------------------------------------------------------------
(* Claim C30.  Every therapist note and every 'notes' field of a session     *)
(* that the session loop has persisted is a text that a successful           *)
(* generation of notes returned: no note that carries the error message of   *)
(* the provider is in the store.                                             *)
C30_NoErrorTextPersisted ==
    IsOpen
       => LET errors == { generate_therapist_notes(o) :
                          o \in { x \in NotesOutcomes : x.failed } }
          IN  /\ \A r \in disk.therapist_notes :
                    \A e \in errors : decrypt(db.key, r.notes).val # <<e>>
              /\ \A r \in disk.therapy_sessions :
                    SessionLoads(decrypt(db.key, r.session_data).val).notes
                        \notin errors

=========================================================================
